---- MODULE Spec2Model ----
(***************************************************************************)
(* A model of the reglet plugin SDK: the guest-side memory boundary (abi   *)
(* package: pinning table, pointer/length packing), the exported-call      *)
(* wrapper handleExportedCall, the host-side DNS pin cache of the          *)
(* SSRF-protected HTTP transport, and the capability checker with its      *)
(* policy.                                                                 *)
(***************************************************************************)
EXTENDS Integers, Sequences, FiniteSets, TLC

VARIABLES
    ptrs,        \* memoryManager.ptrs: pinned pointer -> bytes of the pinned slice
    op,          \* the last abi operation: its name, arguments, outcome
    pc,          \* where the single guest thread is: "host" or "body" (inside f)
    userPlugin,  \* the registered plugin, or NoPlugin
    call,        \* the exported call in progress / last made: its kind, config
                 \* handle, outcome, returned handle, the number of bulk releases
                 \* it made and the pointers pinned when its body ended
    mmLock,      \* holder of memoryManager's mutex in the concurrent test
    cst,         \* per-caller state of the concurrent test
    entries,     \* dnsPinCache.entries: hostname -> [ip, ts]
    now,         \* the clock, in minutes
    dst,         \* per-caller state of dnsPinCache.get
    reports,     \* number of denial reports the policy has emitted
    pop,         \* the last policy operation and its outcome
    reqs,        \* the HTTP requests performed so far, oldest first
    wire,        \* the last guest call answered by a host response
    val,         \* the last call of CapabilityValidator.Validate
    risk,        \* the last call of SimpleRiskAnalyzer.Analyze
    conv,        \* the last call of ToErrorDetail
    defn,        \* PluginDefinition.handlers and the last RegisterService call
    redir        \* the last HTTP request that met redirects

abiVars == <<ptrs, op>>
bndVars == <<pc, userPlugin, call>>
concVars == <<mmLock, cst>>
dnsVars == <<entries, now, dst>>
polVars == <<reports, pop>>
hostVars == <<reqs, wire, val, risk>>
sdkVars == <<conv, defn, redir>>
vars == <<ptrs, op, pc, userPlugin, call, mmLock, cst, entries, now, dst, reports, pop,
          reqs, wire, val, risk, conv, defn, redir>>

----------------------------------------------------------------------------
(* Bounds of the model *)

\* uint32 is modelled with WordBits bits, uint64 with twice as many.
WordBits == 3
\* Addresses the allocator hands out are 1..MaxAddr (0 is the null pointer).
MaxAddr == 2
\* Longest payload a caller passes to PtrFromBytes.
MaxLen == 1

Word == 2 ^ WordBits
DWord == Word * Word
Words == 0 .. (Word - 1)
DWords == 0 .. (DWord - 1)
Addr == 1 .. MaxAddr

\* Byte values: "0" is the zero byte of a fresh make([]byte, size).
Byte == {"a", "b", "c"}
ZeroByte == "0"

RECURSIVE SeqsUpTo(_, _)
SeqsUpTo(S, n) ==
    IF n = 0 THEN {<<>>}
    ELSE LET shorter == SeqsUpTo(S, n - 1)
         IN shorter \cup {Append(s, b) : s \in {t \in shorter : Len(t) = n - 1}, b \in S}

\* Payloads of the single-threaded callers: they differ by their length.
Payloads == SeqsUpTo({"a"}, MaxLen)

\* Pointers and packed handles a caller may pass: the null pointer, every
\* address the allocator hands out and one it never does; the lengths 0, every
\* payload length and one longer.
SamplePtrs == 0 .. (MaxAddr + 1)
SampleLens == 0 .. (MaxLen + 1)
SamplePacked == {p * Word + n : p \in SamplePtrs, n \in SampleLens}

Fill(b, n) == [i \in 1 .. n |-> b]

EmptyTable == <<>>
NoValue == "none"

----------------------------------------------------------------------------
(* abi: pointer/length packing *)

RECURSIVE BitOr(_, _)
BitOr(x, y) ==
    IF x = 0 THEN y
    ELSE IF y = 0 THEN x
    ELSE (IF (x % 2 = 1) \/ (y % 2 = 1) THEN 1 ELSE 0) + 2 * BitOr(x \div 2, y \div 2)

\* uint64(ptr) << WordBits, kept in a double word
ShiftLeftWord(x) == (x * Word) % DWord
\* uint32(packed >> WordBits)
HighWord(packed) == (packed \div Word) % Word
\* uint32(packed)
LowWord(packed) == packed % Word

PackPtrLen_ShortShift(ptr, length) ==
    IF ptr = 0 /\ length > 0
    THEN [ok |-> FALSE, val |-> 0]
    ELSE [ok |-> TRUE, val |-> BitOr((ptr * (Word \div 2)) % DWord, length)]

\* a PackPtrLen that rejects every pair with exactly one of ptr, length zero
PackPtrLen_Strict(ptr, length) ==
    IF (ptr = 0) # (length = 0)
    THEN [ok |-> FALSE, val |-> 0]
    ELSE [ok |-> TRUE, val |-> BitOr(ShiftLeftWord(ptr), length)]

\* ok = FALSE is the panic
PackPtrLen(ptr, length) ==
    IF ptr = 0 /\ length > 0
    THEN [ok |-> FALSE, val |-> 0]
    ELSE [ok |-> TRUE, val |-> BitOr(ShiftLeftWord(ptr), length)]

UnpackPtrLen_NoCheck(packed) ==
    [ok |-> TRUE, ptr |-> HighWord(packed), length |-> LowWord(packed)]

UnpackPtrLen(packed) ==
    LET ptr == HighWord(packed)
        length == LowWord(packed)
    IN IF ptr = 0 /\ length > 0
       THEN [ok |-> FALSE, ptr |-> 0, length |-> 0]
       ELSE [ok |-> TRUE, ptr |-> ptr, length |-> length]

----------------------------------------------------------------------------
(* abi: the pinning table *)

Tracked(t) == DOMAIN t
FreeAddrs(t) == Addr \ DOMAIN t

\* allocate(size) with size > 0 returning ptr: ptrs[ptr] = buf
Pin(t, ptr, bytes) == [p \in (DOMAIN t) \cup {ptr} |-> IF p = ptr THEN bytes ELSE t[p]]

\* a release that clears the whole table
Unpin_All(t, ptr) == EmptyTable

\* delete(memoryManager.ptrs, ptr)
Unpin(t, ptr) == [p \in (DOMAIN t) \ {ptr} |-> t[p]]

\* a bulk release that misses one entry
FreeAllTracked_KeepOne(t) ==
    IF DOMAIN t = {} THEN t
    ELSE LET keep == CHOOSE p \in DOMAIN t : TRUE IN [p \in {keep} |-> t[p]]

\* FreeAllTracked: delete every key
FreeAllTracked(t) == EmptyTable

\* copyToMemory(ptr, data): the first len(data) bytes of the pinned region;
\* bytes written to memory that is not pinned are not kept
CopyToMemory(t, ptr, data) ==
    IF ptr \in DOMAIN t
    THEN [t EXCEPT ![ptr] = [i \in 1 .. Len(t[ptr]) |->
                                IF i <= Len(data) THEN data[i] ELSE t[ptr][i]]]
    ELSE t

\* readFromMemory(ptr, length): a copy of the bytes of a pinned region; a read
\* of memory that is not pinned, or past the pinned slice, yields whatever
\* bytes the linear memory holds there.
ReadFromMemory(t, ptr, length) ==
    IF ptr \in DOMAIN t /\ length <= Len(t[ptr])
    THEN {SubSeq(t[ptr], 1, length)}
    ELSE {Fill(b, length) : b \in Byte \cup {ZeroByte}}

\* DeallocatePacked after a successful unpack
DeallocatePackedTable(t, u) ==
    IF u.ptr # 0 /\ u.length > 0 THEN Unpin(t, u.ptr) ELSE t

Op(name, a, b, ok, out) == [name |-> name, a |-> a, b |-> b, ok |-> ok, out |-> out]

\* allocate(size), the wasm export
Allocate(size) ==
    /\ IF size = 0
       THEN /\ ptrs' = ptrs
            /\ op' = Op("allocate", size, 0, TRUE, 0)
       ELSE \E ptr \in FreeAddrs(ptrs) :
              /\ ptrs' = Pin(ptrs, ptr, Fill(ZeroByte, size))
              /\ op' = Op("allocate", size, 0, TRUE, ptr)
    /\ UNCHANGED <<bndVars, concVars, dnsVars, polVars, hostVars, sdkVars>>

\* deallocate(ptr, size), the wasm export
Deallocate(ptr, size) ==
    /\ ptrs' = Unpin(ptrs, ptr)
    /\ op' = Op("deallocate", ptr, size, TRUE, 0)
    /\ UNCHANGED <<bndVars, concVars, dnsVars, polVars, hostVars, sdkVars>>

DoFreeAllTracked ==
    /\ ptrs' = FreeAllTracked(ptrs)
    /\ op' = Op("FreeAllTracked", 0, 0, TRUE, 0)
    /\ UNCHANGED <<bndVars, concVars, dnsVars, polVars, hostVars, sdkVars>>

\* PtrFromBytes(data) on table t: the tables and packed handles it may
\* produce, one for each address the allocator may return.
PtrFromBytesOutcomes(t, data) ==
    IF Len(data) = 0
    THEN {[table |-> t, packed |-> 0]}
    ELSE {[table |-> CopyToMemory(Pin(t, ptr, Fill(ZeroByte, Len(data))), ptr, data),
           packed |-> PackPtrLen(ptr, Len(data)).val] : ptr \in FreeAddrs(t)}

DoPtrFromBytes(data) ==
    /\ \E o \in PtrFromBytesOutcomes(ptrs, data) :
          /\ ptrs' = o.table
          /\ op' = Op("PtrFromBytes", data, 0, TRUE, o.packed)
    /\ UNCHANGED <<bndVars, concVars, dnsVars, polVars, hostVars, sdkVars>>

DoBytesFromPtr(packed) ==
    LET u == UnpackPtrLen(packed)
    IN /\ ptrs' = ptrs
       /\ IF ~u.ok
          THEN op' = Op("BytesFromPtr", packed, 0, FALSE, NoValue)
          ELSE IF u.ptr = 0 \/ u.length = 0
          THEN op' = Op("BytesFromPtr", packed, 0, TRUE, <<>>)
          ELSE \E bytes \in ReadFromMemory(ptrs, u.ptr, u.length) :
                 op' = Op("BytesFromPtr", packed, 0, TRUE, bytes)
       /\ UNCHANGED <<bndVars, concVars, dnsVars, polVars, hostVars, sdkVars>>

DoDeallocatePacked(packed) ==
    LET u == UnpackPtrLen(packed)
    IN /\ IF ~u.ok
          THEN /\ ptrs' = ptrs
               /\ op' = Op("DeallocatePacked", packed, 0, FALSE, NoValue)
          ELSE /\ ptrs' = DeallocatePackedTable(ptrs, u)
               /\ op' = Op("DeallocatePacked", packed, 0, TRUE, 0)
       /\ UNCHANGED <<bndVars, concVars, dnsVars, polVars, hostVars, sdkVars>>

DoPackPtrLen(ptr, length) ==
    LET r == PackPtrLen(ptr, length)
    IN /\ op' = Op("PackPtrLen", ptr, length, r.ok, IF r.ok THEN r.val ELSE NoValue)
       /\ UNCHANGED <<ptrs, bndVars, concVars, dnsVars, polVars, hostVars, sdkVars>>

DoUnpackPtrLen(packed) ==
    LET r == UnpackPtrLen(packed)
    IN /\ op' = Op("UnpackPtrLen", packed, 0, r.ok,
                   IF r.ok THEN <<r.ptr, r.length>> ELSE NoValue)
       /\ UNCHANGED <<ptrs, bndVars, concVars, dnsVars, polVars, hostVars, sdkVars>>

----------------------------------------------------------------------------
(* sdk: Register and the exported calls describe, schema, observe *)

NoPlugin == "nil"
Plugins == {"p1", "p2"}
ExportKinds == {"describe", "schema", "observe"}

\* json.Marshal of an Evidence, as the tokens a reader decodes
MarshalEvidence(ev) ==
    <<"Evidence", IF ev.Status THEN "true" ELSE "false", ev.Type,
      IF ev.Stack THEN "stack" ELSE "null", ev.Message>>

IsEvidenceJSON(bytes) == Len(bytes) = 5 /\ bytes[1] = "Evidence"

UnmarshalEvidence(bytes) ==
    [Status |-> bytes[2] = "true", Type |-> bytes[3], Stack |-> bytes[4] = "stack",
     Message |-> bytes[5]]

\* ToErrorDetail of an error made with fmt.Errorf: the default branch
ToErrorDetailType(err) == "internal"

\* Evidence{Status: false, Error: &ErrorDetail{Type: "panic", Stack: debug.Stack()}}
PanicEvidence ==
    [Status |-> FALSE, Type |-> "panic", Stack |-> TRUE, Message |-> "plugin panic"]

\* Evidence{Status: false, Error: ToErrorDetail(err)}
ErrorEvidence(err) ==
    [Status |-> FALSE, Type |-> ToErrorDetailType(err), Stack |-> FALSE, Message |-> err]

\* what f returns without error, already as the bytes handleExportedCall packs:
\* the JSON of the Metadata, the raw schema bytes (possibly none), the JSON of
\* the Evidence of Check (with its error embedded when Check returned one)
BodyResults(kind) ==
    CASE kind = "describe" -> {<<"Metadata", userPlugin>>}
      [] kind = "schema" -> {<<>>, <<"schema">>}
      [] kind = "observe" -> {MarshalEvidence([Status |-> TRUE, Type |-> "null", Stack |-> FALSE,
                                               Message |-> ""]),
                              MarshalEvidence(ErrorEvidence("check failed"))}

\* the errors f returns: "plugin not registered" before any Register, then
\* an error of Describe or Schema, or a config that does not parse
BodyErrors(kind) ==
    IF userPlugin = NoPlugin THEN {"plugin not registered"}
    ELSE CASE kind = "describe" -> {"describe failed"}
           [] kind = "schema" -> {"schema failed"}
           [] kind = "observe" -> {"failed to parse config"}

packEvidenceWithError_Freeing(t, ev) ==
    PtrFromBytesOutcomes(FreeAllTracked(t), MarshalEvidence(ev))

packEvidenceWithError(t, ev) == PtrFromBytesOutcomes(t, MarshalEvidence(ev))

RecoverTable_NoFree(t) == t

\* the deferred function of handleExportedCall frees all tracked allocations
RecoverTable(t) == FreeAllTracked(t)

Registered == userPlugin # NoPlugin

ConfigHandleOk_Unchecked == TRUE

\* abi.PackPtrLen(configPtr, configLen) of observe does not panic
ConfigHandleOk ==
    call.kind = "observe" => PackPtrLen(call.cfg[1], call.cfg[2]).ok

\* the plugin's code runs: it is registered and the config handle was read
BodyRuns == pc = "body" /\ Registered /\ ConfigHandleOk

\* at least one address stays free for the result of the call
RoomForBuffer == Cardinality(FreeAddrs(ptrs)) > 1

Register_LastWins(p) ==
    /\ pc = "host"
    /\ userPlugin' = p
    /\ op' = Op("Register", p, 0, TRUE, 0)
    /\ UNCHANGED <<ptrs, pc, call, concVars, dnsVars, polVars, hostVars, sdkVars>>

Register(p) ==
    /\ pc = "host"
    /\ userPlugin' = IF userPlugin # NoPlugin THEN userPlugin ELSE p
    /\ op' = Op("Register", p, 0, TRUE, 0)
    /\ UNCHANGED <<ptrs, pc, call, concVars, dnsVars, polVars, hostVars, sdkVars>>

\* the host calls the exports allocate and deallocate between calls: it
\* allocates the config of observe and releases what it has read
HostAllocate(size) == pc = "host" /\ RoomForBuffer /\ Allocate(size)

HostDeallocate(ptr, size) == pc = "host" /\ Deallocate(ptr, size)

\* FreeAllTracked called by the guest outside an exported call (shutdown)
GuestFreeAllTracked == pc = "host" /\ DoFreeAllTracked

\* the host calls _describe, _schema or _observe(configPtr, configLen)
ExportedCall(kind, configPtr, configLen) ==
    /\ pc = "host"
    /\ pc' = "body"
    /\ call' = [kind |-> kind, cfg |-> <<configPtr, configLen>>, outcome |-> "running",
                ret |-> 0, freed |-> 0, before |-> {}]
    /\ op' = Op(kind, configPtr, configLen, TRUE, 0)
    /\ UNCHANGED <<ptrs, userPlugin, concVars, dnsVars, polVars, hostVars, sdkVars>>

\* the plugin's code pins a buffer (the request of a host call, a log message)
BodyPtrFromBytes(data) ==
    /\ BodyRuns
    /\ RoomForBuffer
    /\ DoPtrFromBytes(data)

\* the plugin's code releases a buffer by its handle; a handle that makes
\* DeallocatePacked panic is BodyPanic
BodyDeallocatePacked(packed) ==
    /\ BodyRuns
    /\ UnpackPtrLen(packed).ok
    /\ DoDeallocatePacked(packed)

\* f returned (result, nil): the result is marshalled and pinned
BodyReturn ==
    /\ BodyRuns
    /\ \E bytes \in BodyResults(call.kind) :
          \E o \in PtrFromBytesOutcomes(ptrs, bytes) :
            /\ ptrs' = o.table
            /\ call' = [call EXCEPT !.outcome = "ok", !.ret = o.packed,
                                  !.before = DOMAIN ptrs]
            /\ op' = Op("PtrFromBytes", bytes, 0, TRUE, o.packed)
    /\ pc' = "host"
    /\ UNCHANGED <<userPlugin, concVars, dnsVars, polVars, hostVars, sdkVars>>

\* f returned an error: "plugin not registered", an error of Describe or
\* Schema, or a config that does not parse
BodyReturnError ==
    /\ pc = "body"
    /\ ~Registered \/ ConfigHandleOk
    /\ \E err \in BodyErrors(call.kind) :
       \E o \in packEvidenceWithError(ptrs, ErrorEvidence(err)) :
          /\ ptrs' = o.table
          /\ call' = [call EXCEPT !.outcome = "error", !.ret = o.packed,
                                !.before = DOMAIN ptrs]
          /\ op' = Op("PtrFromBytes", MarshalEvidence(ErrorEvidence(err)), 0, TRUE, o.packed)
    /\ pc' = "host"
    /\ UNCHANGED <<userPlugin, concVars, dnsVars, polVars, hostVars, sdkVars>>

\* f panicked (the plugin's code, or PackPtrLen / UnpackPtrLen on a bad
\* handle): the deferred function recovers, frees, and packs the Evidence
BodyPanic ==
    /\ pc = "body"
    /\ Registered
    /\ \E o \in packEvidenceWithError(RecoverTable(ptrs), PanicEvidence) :
          /\ ptrs' = o.table
          /\ call' = [call EXCEPT !.outcome = "panic", !.ret = o.packed,
                                !.freed = @ + 1, !.before = DOMAIN ptrs]
          /\ op' = Op("PtrFromBytes", MarshalEvidence(PanicEvidence), 0, TRUE, o.packed)
    /\ pc' = "host"
    /\ UNCHANGED <<userPlugin, concVars, dnsVars, polVars, hostVars, sdkVars>>

----------------------------------------------------------------------------
(* abi: goroutines that pin, read and release their own buffer concurrently *)

\* Number of concurrent callers (at most three are named).
NumCallers == 2

NoCaller == "nobody"
Main == "main"
CallerNames == <<"g1", "g2", "g3">>
Callers == {CallerNames[i] : i \in 1 .. NumCallers}
Procs == Callers \cup {Main}

\* the bytes a caller passes to PtrFromBytes: each caller has its own
CallerData(c) ==
    CASE c = "g1" -> Fill("a", MaxLen)
      [] c = "g2" -> Fill("b", MaxLen)
      [] OTHER -> Fill("c", MaxLen)

LockFree_Always == TRUE

\* memoryManager.Lock() returns only when nobody holds the mutex
LockFree == mmLock = NoCaller

InCritical(c) == cst[c].pc \in {"reset_locked", "reset_cleared", "ins_locked", "ins_done",
                                "del_locked", "del_done"}

\* slices made by allocate and not yet stored in the table
LocalBufs == {cst[c].ptr : c \in {d \in Callers : cst[d].pc = "made" \/ cst[d].pc = "ins_locked"}}

Spawned == cst[Main].pc = "spawned"

Goto(c, next) == cst' = [cst EXCEPT ![c].pc = next]

\* TestConcurrency resets the table before it starts the goroutines
ResetLock ==
    /\ cst[Main].pc = "reset"
    /\ LockFree
    /\ mmLock' = Main
    /\ Goto(Main, "reset_locked")
    /\ UNCHANGED <<abiVars, bndVars, dnsVars, polVars, hostVars, sdkVars>>

ResetClear ==
    /\ cst[Main].pc = "reset_locked"
    /\ ptrs' = FreeAllTracked(ptrs)
    /\ Goto(Main, "reset_cleared")
    /\ UNCHANGED <<op, mmLock, bndVars, dnsVars, polVars, hostVars, sdkVars>>

ResetUnlock ==
    /\ cst[Main].pc = "reset_cleared"
    /\ mmLock' = NoCaller
    /\ Goto(Main, "spawned")
    /\ UNCHANGED <<abiVars, bndVars, dnsVars, polVars, hostVars, sdkVars>>

\* allocate: buf := make([]byte, size), at an address no live slice has
CallerMake(c) ==
    /\ Spawned
    /\ cst[c].pc = "start"
    /\ \E ptr \in FreeAddrs(ptrs) \ LocalBufs :
          cst' = [cst EXCEPT ![c].pc = "made", ![c].ptr = ptr]
    /\ UNCHANGED <<abiVars, mmLock, bndVars, dnsVars, polVars, hostVars, sdkVars>>

\* memoryManager.Lock() in allocate and in deallocate
CallerLock(c) ==
    /\ cst[c].pc \in {"made", "read"}
    /\ cst[c].pc = "read" =>
          LET u == UnpackPtrLen(cst[c].packed) IN u.ok /\ u.ptr # 0 /\ u.length > 0
    /\ LockFree
    /\ mmLock' = c
    /\ Goto(c, IF cst[c].pc = "made" THEN "ins_locked" ELSE "del_locked")
    /\ UNCHANGED <<abiVars, bndVars, dnsVars, polVars, hostVars, sdkVars>>

\* memoryManager.ptrs[ptr] = buf
CallerInsert(c) ==
    /\ cst[c].pc = "ins_locked"
    /\ ptrs' = Pin(ptrs, cst[c].ptr, Fill(ZeroByte, Len(CallerData(c))))
    /\ Goto(c, "ins_done")
    /\ UNCHANGED <<op, mmLock, bndVars, dnsVars, polVars, hostVars, sdkVars>>

\* memoryManager.Unlock() in allocate and in deallocate
CallerUnlock(c) ==
    /\ cst[c].pc \in {"ins_done", "del_done"}
    /\ mmLock' = NoCaller
    /\ Goto(c, IF cst[c].pc = "ins_done" THEN "pinned" ELSE "done")
    /\ UNCHANGED <<abiVars, bndVars, dnsVars, polVars, hostVars, sdkVars>>

\* the rest of PtrFromBytes: copyToMemory, PackPtrLen
CallerCopy(c) ==
    /\ cst[c].pc = "pinned"
    /\ ptrs' = CopyToMemory(ptrs, cst[c].ptr, CallerData(c))
    /\ cst' = [cst EXCEPT ![c].pc = "packed",
                           ![c].packed = PackPtrLen(cst[c].ptr, Len(CallerData(c))).val]
    /\ UNCHANGED <<op, mmLock, bndVars, dnsVars, polVars, hostVars, sdkVars>>

\* BytesFromPtr(packed)
CallerRead(c) ==
    /\ cst[c].pc = "packed"
    /\ LET u == UnpackPtrLen(cst[c].packed)
       IN /\ u.ok
          /\ \E bytes \in (IF u.ptr = 0 \/ u.length = 0 THEN {<<>>}
                            ELSE ReadFromMemory(ptrs, u.ptr, u.length)) :
                cst' = [cst EXCEPT ![c].pc = "read", ![c].got = bytes]
    /\ UNCHANGED <<abiVars, mmLock, bndVars, dnsVars, polVars, hostVars, sdkVars>>

\* delete(memoryManager.ptrs, ptr) in deallocate, called by DeallocatePacked
CallerDelete(c) ==
    /\ cst[c].pc = "del_locked"
    /\ ptrs' = Unpin(ptrs, UnpackPtrLen(cst[c].packed).ptr)
    /\ Goto(c, "del_done")
    /\ UNCHANGED <<op, mmLock, bndVars, dnsVars, polVars, hostVars, sdkVars>>

----------------------------------------------------------------------------
(* hostfuncs: the DNS pin cache of the SSRF-protected transport *)

\* The clock stops at MaxTime minutes.
MaxTime == 6

\* ttl: 5 * time.Minute
ttl == 5

DnsHosts == {"h1", "h2"}
IPs == {"ip1", "ip2"}
DnsCallers == {"d1", "d2"}
NoHost == "none"
DnsError == "error"
NoEntryTs == -1

\* ValidateAddress(hostname): refused, or allowed with the resolved IP (what
\* the name resolves to may change from one resolution to the next), or
\* allowed with no resolved IP
ValidateAddress(hostname) ==
    {[Allowed |-> FALSE, ResolvedIP |-> ""]} \cup
    {[Allowed |-> TRUE, ResolvedIP |-> ip] : ip \in IPs \cup {""}}

\* time.Since(entry.timestamp) < c.ttl
Fresh(entry) == now - entry.ts < ttl

Cached(hostname) == hostname \in DOMAIN entries /\ Fresh(entries[hostname])

IdleGet == [pc |-> "idle", host |-> NoHost, snapTs |-> NoEntryTs, ip |-> "", ret |-> "",
            resolved |-> FALSE, pinTs |-> NoEntryTs]

\* get: the read of the entry under RLock and the check of its age; a
\* fresh entry is returned, otherwise the caller goes on to resolve
DnsGetStart(c, hostname) ==
    /\ dst[c].pc = "idle"
    /\ IF Cached(hostname)
       THEN dst' = [dst EXCEPT ![c] = [IdleGet EXCEPT !.host = hostname,
                                          !.snapTs = entries[hostname].ts,
                                          !.ret = entries[hostname].ip,
                                          !.pinTs = entries[hostname].ts]]
       ELSE dst' = [dst EXCEPT ![c] = [IdleGet EXCEPT !.pc = "resolve", !.host = hostname,
                                          !.snapTs = IF hostname \in DOMAIN entries
                                                     THEN entries[hostname].ts
                                                     ELSE NoEntryTs]]
    /\ UNCHANGED <<entries, now, abiVars, bndVars, concVars, polVars, hostVars, sdkVars>>

\* get: ValidateAddress; a refused address returns an error
DnsResolve(c) ==
    /\ dst[c].pc = "resolve"
    /\ \E result \in ValidateAddress(dst[c].host) :
          IF ~result.Allowed
          THEN dst' = [dst EXCEPT ![c].pc = "idle", ![c].ret = DnsError, ![c].resolved = TRUE]
          ELSE dst' = [dst EXCEPT ![c].pc = "store", ![c].resolved = TRUE,
                                  ![c].ip = IF result.ResolvedIP = "" THEN dst[c].host
                                            ELSE result.ResolvedIP]
    /\ UNCHANGED <<entries, now, abiVars, bndVars, concVars, polVars, hostVars, sdkVars>>

\* get: the entry is written under Lock, stamped time.Now(), and returned
DnsStore(c) ==
    /\ dst[c].pc = "store"
    /\ entries' = [h \in (DOMAIN entries) \cup {dst[c].host} |->
                      IF h = dst[c].host THEN [ip |-> dst[c].ip, ts |-> now] ELSE entries[h]]
    /\ dst' = [dst EXCEPT ![c].pc = "idle", ![c].ret = dst[c].ip, ![c].pinTs = now]
    /\ UNCHANGED <<now, abiVars, bndVars, concVars, polVars, hostVars, sdkVars>>

\* a minute passes
Tick ==
    /\ now < MaxTime
    /\ now' = now + 1
    /\ UNCHANGED <<entries, dst, abiVars, bndVars, concVars, polVars, hostVars, sdkVars>>

InitDnsCache ==
    /\ entries = <<>>
    /\ now = 0
    /\ dst = [c \in DnsCallers |-> IdleGet]

----------------------------------------------------------------------------
(* The policy engine and the capability checker of the host *)

\* The policy stops being asked once it has emitted MaxReports reports.
MaxReports == 2

Absent == [present |-> FALSE]

\* Host names and paths are sequences of segments.
Hostnames == {<<"a", "com">>, <<"x", "a", "com">>, <<"b", "com">>}
Ports == {80, 443}
Paths == {<<"data", "f">>, <<"data", "d", "f">>, <<"tmp", "f">>, <<"etc">>}
FsOperations == {"read", "write"}
VariableNames == {"HOME", "PATH"}
Commands == {"/bin/ls", "/bin/sh"}
Keys == {"k1", "k2"}
KvOperations == {"read", "write"}

GrantSetOf ==
    [empty |-> [Network |-> Absent, FS |-> Absent, Env |-> Absent, Exec |-> Absent,
                KV |-> Absent],
     web |-> [Network |-> [present |-> TRUE,
                           Rules |-> <<[Hosts |-> {<<"*", "a", "com">>}, Ports |-> {"443"}]>>],
              FS |-> [present |-> TRUE,
                      Rules |-> <<[Read |-> {<<"data", "**">>}, Write |-> {<<"tmp", "f">>}]>>],
              Env |-> [present |-> TRUE, Variables |-> {"HOME"}],
              Exec |-> [present |-> TRUE, Commands |-> {"/bin/ls"}],
              KV |-> [present |-> TRUE,
                      Rules |-> <<[Keys |-> {"k1"}, Operation |-> "read"]>>]],
     wide |-> [Network |-> [present |-> TRUE,
                            Rules |-> <<[Hosts |-> {<<"*">>}, Ports |-> {"*"}]>>],
               FS |-> [present |-> TRUE,
                       Rules |-> <<[Read |-> {<<"*">>, <<"data", "*">>}, Write |-> {}]>>],
               Env |-> [present |-> TRUE, Variables |-> {"*"}],
               Exec |-> [present |-> TRUE, Commands |-> {"/bin/ls", "/bin/sh"}],
               KV |-> [present |-> TRUE,
                       Rules |-> <<[Keys |-> {"*"}, Operation |-> "read-write"]>>]],
     two |-> [Network |-> [present |-> TRUE,
                           Rules |-> <<[Hosts |-> {<<"b", "com">>}, Ports |-> {"80"}],
                                       [Hosts |-> {<<"a", "com">>}, Ports |-> {"443"}]>>],
              FS |-> Absent,
              Env |-> [present |-> TRUE, Variables |-> {}],
              Exec |-> Absent,
              KV |-> [present |-> TRUE,
                      Rules |-> <<[Keys |-> {"k1"}, Operation |-> "write"],
                                  [Keys |-> {"k2"}, Operation |-> "read"]>>]],
     shell |-> [Network |-> Absent,
                FS |-> Absent,
                Env |-> [present |-> TRUE, Variables |-> {"HOME"}],
                Exec |-> [present |-> TRUE, Commands |-> {"/bin/sh", "env:PATH"}],
                KV |-> Absent]]

GrantSets == DOMAIN GrantSetOf

CapabilityKinds == {"network", "filesystem", "environment", "exec", "keyvalue"}

Requests(kind) ==
    CASE kind = "network" -> {[Host |-> h, Port |-> p] : h \in Hostnames, p \in Ports}
      [] kind = "filesystem" -> {[Path |-> q, Operation |-> o] : q \in Paths, o \in FsOperations}
      [] kind = "environment" -> {[Variable |-> v] : v \in VariableNames}
      [] kind = "exec" -> {[Command |-> c] : c \in Commands}
      [] kind = "keyvalue" -> {[Key |-> k, Operation |-> o] : k \in Keys, o \in KvOperations}

\* the port of a request as the string a port pattern is written in
PortString(port) == IF port = 80 THEN "80" ELSE "443"

SegmentMatches(pattern, segment) == pattern = "*" \/ pattern = segment

\* exact, or `*` wildcard segments, or the literal `*` meaning any host
HostMatches(pattern, host) ==
    \/ pattern = <<"*">>
    \/ /\ Len(pattern) = Len(host)
       /\ \A i \in 1..Len(pattern) : SegmentMatches(pattern[i], host[i])

PortMatches(pattern, port) == pattern = "*" \/ pattern = PortString(port)

\* exact, a single-segment wildcard, or ending in `/**` for its descendants
PathMatches(pattern, path) ==
    IF Len(pattern) > 0 /\ pattern[Len(pattern)] = "**"
    THEN /\ Len(path) >= Len(pattern)
         /\ \A i \in 1..(Len(pattern) - 1) : SegmentMatches(pattern[i], path[i])
    ELSE /\ Len(pattern) = Len(path)
         /\ \A i \in 1..Len(pattern) : SegmentMatches(pattern[i], path[i])

NameMatches(pattern, name) == pattern = "*" \/ pattern = name

OperationCovers(granted, requested) == granted = "read-write" \/ granted = requested

EvaluateNetwork(req, grants) ==
    /\ grants.Network.present
    /\ \E i \in 1..Len(grants.Network.Rules) :
          /\ \E pattern \in grants.Network.Rules[i].Hosts : HostMatches(pattern, req.Host)
          /\ \E pattern \in grants.Network.Rules[i].Ports : PortMatches(pattern, req.Port)

EvaluateFileSystem(req, grants) ==
    /\ grants.FS.present
    /\ \E i \in 1..Len(grants.FS.Rules) :
          \E pattern \in (IF req.Operation = "read" THEN grants.FS.Rules[i].Read
                          ELSE grants.FS.Rules[i].Write) : PathMatches(pattern, req.Path)

EvaluateEnvironment(req, grants) ==
    /\ grants.Env.present
    /\ \E pattern \in grants.Env.Variables : NameMatches(pattern, req.Variable)

EvaluateExec(req, grants) ==
    /\ grants.Exec.present
    /\ req.Command \in grants.Exec.Commands

EvaluateKeyValue(req, grants) ==
    /\ grants.KV.present
    /\ \E i \in 1..Len(grants.KV.Rules) :
          /\ \E pattern \in grants.KV.Rules[i].Keys : NameMatches(pattern, req.Key)
          /\ OperationCovers(grants.KV.Rules[i].Operation, req.Operation)

Evaluate(kind, req, grants) ==
    CASE kind = "network" -> EvaluateNetwork(req, grants)
      [] kind = "filesystem" -> EvaluateFileSystem(req, grants)
      [] kind = "environment" -> EvaluateEnvironment(req, grants)
      [] kind = "exec" -> EvaluateExec(req, grants)
      [] kind = "keyvalue" -> EvaluateKeyValue(req, grants)

WithDenialReport_Always(result) == [result |-> result, reported |-> 1]

\* a decision of Check: the boolean, and the denial report that goes with it
WithDenialReport(result) == [result |-> result, reported |-> IF result THEN 0 ELSE 1]

CheckNetwork(req, grants) == WithDenialReport(EvaluateNetwork(req, grants))
CheckFileSystem(req, grants) == WithDenialReport(EvaluateFileSystem(req, grants))
CheckEnvironment(req, grants) == WithDenialReport(EvaluateEnvironment(req, grants))
CheckExec(req, grants) == WithDenialReport(EvaluateExec(req, grants))
CheckKeyValue(req, grants) == WithDenialReport(EvaluateKeyValue(req, grants))

Check(kind, req, grants) ==
    CASE kind = "network" -> CheckNetwork(req, grants)
      [] kind = "filesystem" -> CheckFileSystem(req, grants)
      [] kind = "environment" -> CheckEnvironment(req, grants)
      [] kind = "exec" -> CheckExec(req, grants)
      [] kind = "keyvalue" -> CheckKeyValue(req, grants)

NilGrants == "nil"
NoError == "nil"

\* CapabilityChecker.grantedCapabilities: plugin name -> grant set (or nil)
grantedCapabilities ==
    [web |-> "web", wide |-> "wide", two |-> "two", shell |-> "shell", hollow |-> "empty",
     nilp |-> NilGrants]

PluginNames == (DOMAIN grantedCapabilities) \cup {"ghost"}

HasGrants(pluginName) ==
    pluginName \in DOMAIN grantedCapabilities /\ grantedCapabilities[pluginName] # NilGrants

CheckNetworkConnection_LoudFirst(pluginName, host, port) ==
    IF ~HasGrants(pluginName)
    THEN [err |-> "no capabilities granted", reported |-> 0]
    ELSE LET req == [Host |-> host, Port |-> port]
             grants == GrantSetOf[grantedCapabilities[pluginName]]
             loud == CheckNetwork(req, grants)
         IN  IF loud.result
             THEN [err |-> NoError, reported |-> loud.reported]
             ELSE [err |-> "network capability denied",
                   reported |-> loud.reported + CheckNetwork(req, grants).reported]

\* CapabilityChecker.CheckNetworkConnection: the error it returns and the
\* denial reports its calls of the policy emit
CheckNetworkConnection(pluginName, host, port) ==
    IF ~HasGrants(pluginName)
    THEN [err |-> "no capabilities granted", reported |-> 0]
    ELSE LET req == [Host |-> host, Port |-> port]
             grants == GrantSetOf[grantedCapabilities[pluginName]]
         IN  IF EvaluateNetwork(req, grants)
             THEN [err |-> NoError, reported |-> 0]
             ELSE [err |-> "network capability denied",
                   reported |-> CheckNetwork(req, grants).reported]

PolicyOp(name, kind, req, who, result, err) ==
    [name |-> name, kind |-> kind, req |-> req, who |-> who, result |-> result,
     err |-> err, before |-> reports]

DoEvaluate(kind, req, g) ==
    /\ pop' = PolicyOp("Evaluate", kind, req, g, Evaluate(kind, req, GrantSetOf[g]), NoError)
    /\ UNCHANGED <<reports, abiVars, bndVars, concVars, dnsVars, hostVars, sdkVars>>

DoCheck(kind, req, g) ==
    /\ reports < MaxReports
    /\ LET decision == Check(kind, req, GrantSetOf[g])
       IN  /\ reports' = reports + decision.reported
           /\ pop' = PolicyOp("Check", kind, req, g, decision.result, NoError)
    /\ UNCHANGED <<abiVars, bndVars, concVars, dnsVars, hostVars, sdkVars>>

DoCheckNetworkConnection(pluginName, host, port) ==
    /\ reports < MaxReports
    /\ LET outcome == CheckNetworkConnection(pluginName, host, port)
       IN  /\ reports' = reports + outcome.reported
           /\ pop' = PolicyOp("CheckNetworkConnection", "network",
                              [Host |-> host, Port |-> port], pluginName,
                              outcome.err = NoError, outcome.err)
    /\ UNCHANGED <<abiVars, bndVars, concVars, dnsVars, hostVars, sdkVars>>

InitPolicy ==
    /\ reports = 0
    /\ pop = [name |-> "none", kind |-> "none", req |-> <<>>, who |-> "none", result |-> TRUE,
              err |-> NoError, before |-> 0]

----------------------------------------------------------------------------
(* hostfuncs: PerformHTTPRequest and the client it creates *)

\* Number of HTTP requests performed in a run.
MaxRequests == 2

\* newDNSPinCache(): entries: make(map[string]dnsPinnedEntry)
newDNSPinCache == <<>>

\* dnsPinCache.get run from its call to its return on a cache: what it
\* returns, the cache it leaves and whether it called ValidateAddress
GetOutcomes(cache, hostname) ==
    IF hostname \in DOMAIN cache /\ Fresh(cache[hostname])
    THEN {[ret |-> cache[hostname].ip, cache |-> cache, resolved |-> FALSE]}
    ELSE {IF ~result.Allowed
          THEN [ret |-> DnsError, cache |-> cache, resolved |-> TRUE]
          ELSE LET resolvedIP == IF result.ResolvedIP = "" THEN hostname
                                 ELSE result.ResolvedIP
               IN  [ret |-> resolvedIP,
                    cache |-> [h \in (DOMAIN cache) \cup {hostname} |->
                                 IF h = hostname THEN [ip |-> resolvedIP, ts |-> now]
                                 ELSE cache[h]],
                    resolved |-> TRUE]
          : result \in ValidateAddress(hostname)}

\* createHTTPClient with ssrfProtection: newSSRFProtectedTransport makes a
\* new cache, whatever cache an earlier client had
createHTTPClient(cache) == newDNSPinCache

HTTPRecord(hostname, ssrfProtection, validations, dialed, code) ==
    [host |-> hostname, ssrf |-> ssrfProtection, validations |-> validations,
     dialed |-> dialed, code |-> code, at |-> now]

\* PerformHTTPRequest with WithHTTPSSRFProtection: the client's transport
\* dials once, or twice when the connection has to be opened again
PerformProtected(hostname, dials) ==
    /\ Len(reqs) < MaxRequests
    /\ \E first \in GetOutcomes(createHTTPClient(entries), hostname) :
          IF first.ret = DnsError
          THEN /\ entries' = first.cache
               /\ reqs' = Append(reqs, HTTPRecord(hostname, TRUE, 1, <<>>, "SSRF_BLOCKED"))
          ELSE IF dials = 1
          THEN /\ entries' = first.cache
               /\ reqs' = Append(reqs, HTTPRecord(hostname, TRUE,
                                                  IF first.resolved THEN 1 ELSE 0,
                                                  <<first.ret>>, ""))
          ELSE \E second \in GetOutcomes(first.cache, hostname) :
                 /\ entries' = second.cache
                 /\ reqs' = Append(reqs, HTTPRecord(hostname, TRUE,
                                      (IF first.resolved THEN 1 ELSE 0)
                                          + (IF second.resolved THEN 1 ELSE 0),
                                      IF second.ret = DnsError THEN <<first.ret>>
                                      ELSE <<first.ret, second.ret>>,
                                      IF second.ret = DnsError THEN "SSRF_BLOCKED" ELSE ""))
    /\ UNCHANGED <<now, dst, wire, val, risk, abiVars, bndVars, concVars, polVars, sdkVars>>

\* PerformHTTPRequest without the option: a plain transport, which resolves
\* the name by itself and validates nothing
PerformUnprotected(hostname) ==
    /\ Len(reqs) < MaxRequests
    /\ \E ip \in IPs : reqs' = Append(reqs, HTTPRecord(hostname, FALSE, 0, <<ip>>, ""))
    /\ UNCHANGED <<entries, now, dst, wire, val, risk, abiVars, bndVars, concVars, polVars, sdkVars>>

----------------------------------------------------------------------------
(* The guest's calls of host functions: lookup, RoundTrip, DialSecure *)

WireFns == {"lookup", "RoundTrip", "DialSecure"}

NoResult == <<>>

\* the error field of a response: absent or null, an empty object, a detail
WireErrors == {"null", "{}", "network"}

\* the payload field of a response: records, a base64 body, connected
WirePayloads(fn) ==
    CASE fn = "lookup" -> {"null", "records"}
      [] fn = "RoundTrip" -> {"", "b64", "not-b64"}
      [] fn = "DialSecure" -> {"connected", "refused"}

\* what the host may write as its response: a JSON object of the call's
\* response type, bytes that are not JSON, or nothing
HostResponses(fn) ==
    {<<"object", e, p>> : e \in WireErrors, p \in WirePayloads(fn)} \cup {<<"garbage">>, <<>>}

\* json.Marshal of the request
RequestBytes(fn) == <<fn>>

\* json.Unmarshal(responseBytes, &response)
UnmarshalResponse(bytes) ==
    IF Len(bytes) = 3 /\ bytes[1] = "object"
    THEN [ok |-> TRUE, Error |-> IF bytes[2] = "null" THEN "nil" ELSE bytes[2],
          Payload |-> bytes[3]]
    ELSE [ok |-> FALSE, Error |-> "nil", Payload |-> ""]

WireResult_PayloadFirst(fn, bytes) ==
    LET response == UnmarshalResponse(bytes)
    IN  IF ~response.ok
        THEN [err |-> "unmarshal", result |-> NoResult]
        ELSE IF response.Payload \in {"records", "b64", "connected"}
        THEN [err |-> NoError, result |-> <<fn, response.Payload>>]
        ELSE [err |-> response.Error, result |-> NoResult]

\* what lookup, RoundTrip and DialSecure return for the bytes of a response
WireResult(fn, bytes) ==
    LET response == UnmarshalResponse(bytes)
    IN  IF ~response.ok
        THEN [err |-> "unmarshal", result |-> NoResult]
        ELSE IF response.Error # "nil"
        THEN [err |-> response.Error, result |-> NoResult]
        ELSE IF fn = "RoundTrip" /\ response.Payload = "not-b64"
        THEN [err |-> "decode", result |-> NoResult]
        ELSE [err |-> NoError, result |-> <<fn, response.Payload>>]

\* DialSecure releases the request with a deferred DeallocatePacked; lookup
\* and RoundTrip release only the response
ReleasesRequest(fn) == fn = "DialSecure"

\* One call: the request is pinned with PtrFromBytes, the host writes its
\* response into a region it had the guest allocate, the guest reads the
\* response, releases it and decodes it.
WireCall(fn, answer) ==
    /\ \E request \in PtrFromBytesOutcomes(ptrs, RequestBytes(fn)) :
       \E response \in PtrFromBytesOutcomes(request.table, answer) :
       \E bytes \in (IF response.packed = 0 THEN {<<>>}
                     ELSE ReadFromMemory(response.table, UnpackPtrLen(response.packed).ptr,
                                         UnpackPtrLen(response.packed).length)) :
          LET released == DeallocatePackedTable(response.table, UnpackPtrLen(response.packed))
              after == IF ReleasesRequest(fn)
                       THEN DeallocatePackedTable(released, UnpackPtrLen(request.packed))
                       ELSE released
              outcome == WireResult(fn, bytes)
          IN  /\ ptrs' = after
              /\ op' = Op("DeallocatePacked", response.packed, 0, TRUE, 0)
              /\ wire' = [fn |-> fn, bytes |-> bytes, err |-> outcome.err,
                          result |-> outcome.result, request |-> request.packed]
    /\ UNCHANGED <<reqs, val, risk, bndVars, concVars, dnsVars, polVars, sdkVars>>

\* DialSecure with an address that net.SplitHostPort rejects
DialInvalidAddress ==
    /\ wire' = [fn |-> "DialSecure", bytes |-> <<>>, err |-> "invalid address",
                result |-> NoResult, request |-> 0]
    /\ UNCHANGED <<reqs, val, risk, abiVars, bndVars, concVars, dnsVars, polVars, sdkVars>>

----------------------------------------------------------------------------
(* validation: CapabilityValidator.Validate *)

\* the capability kinds in the order Validate goes through them
KindOrder == <<"network", "fs", "env", "exec", "kv">>
SectionKinds == {KindOrder[i] : i \in 1..Len(KindOrder)}

\* a section of the manifest: a nil pointer, a capability with no rules,
\* variables or commands, or a capability with some, which the kind's schema
\* accepts or rejects
Sections == {"nil", "empty", "conforming", "violating"}

\* a *Manifest: the nil pointer, or a manifest with its Capabilities
NilManifest == [ptr |-> "nil", Capabilities |-> [k \in SectionKinds |-> "nil"]]
Manifests ==
    {NilManifest} \cup {[ptr |-> "ok", Capabilities |-> c] : c \in [SectionKinds -> Sections]}

\* what the registry has for a kind: nothing, a schema, a string that is
\* not a schema resource, or a schema that does not compile
Schemas == {"none", "ok", "unparsable", "uncompilable"}

RegistryOf ==
    [empty |-> [k \in SectionKinds |-> "none"],
     full |-> [k \in SectionKinds |-> "ok"],
     test |-> [k \in SectionKinds |-> IF k \in {"network", "fs"} THEN "ok" ELSE "none"],
     mixed |-> [k \in SectionKinds |->
                  CASE k = "network" -> "unparsable"
                    [] k = "fs" -> "uncompilable"
                    [] k = "env" -> "ok"
                    [] k = "exec" -> "none"
                    [] k = "kv" -> "ok"]]

Registries == DOMAIN RegistryOf

NoMessage == <<>>

SectionPresent_NonNil(section) == section # "nil"

\* grants.X != nil && len(grants.X.Rules) > 0
SectionPresent(section) == section \notin {"nil", "empty"}

SectionError_Lenient(kind, schema, data) ==
    CASE schema = "none" -> NoMessage
      [] schema = "unparsable" -> <<"failed to add schema resource for ", kind>>
      [] schema = "uncompilable" -> <<"invalid schema for ", kind>>
      [] data = "violating" -> <<"schema violation in ", kind>>
      [] OTHER -> NoMessage

\* validateSection: the message of the error it appends, if any
SectionError(kind, schema, data) ==
    CASE schema = "none" -> <<"no schema registered for capability kind: ", kind>>
      [] schema = "unparsable" -> <<"failed to add schema resource for ", kind>>
      [] schema = "uncompilable" -> <<"invalid schema for ", kind>>
      [] data = "violating" -> <<"schema violation in ", kind>>
      [] OTHER -> NoMessage

validateSection_FailFast(kind, schema, data, result) ==
    IF ~result.Valid \/ SectionError(kind, schema, data) = NoMessage
    THEN result
    ELSE [result EXCEPT !.Valid = FALSE,
                        !.Errors = Append(@, [Field |-> kind,
                                              Message |-> SectionError(kind, schema, data)])]

validateSection(kind, schema, data, result) ==
    IF SectionError(kind, schema, data) = NoMessage
    THEN result
    ELSE [result EXCEPT !.Valid = FALSE,
                        !.Errors = Append(@, [Field |-> kind,
                                              Message |-> SectionError(kind, schema, data)])]

\* one of the five `if grants.X != nil && len(...) > 0 { validateSection }`
CheckSection(kind, registry, manifest, result) ==
    IF SectionPresent(manifest.Capabilities[kind])
    THEN validateSection(kind, registry[kind], manifest.Capabilities[kind], result)
    ELSE result

\* Validate(manifest): the result and the Go error it returns; a nil
\* manifest is dereferenced
Validate(registry, manifest) ==
    IF manifest.ptr = "nil"
    THEN [panic |-> TRUE, Valid |-> FALSE, Errors |-> <<>>, err |-> "nil"]
    ELSE CheckSection("kv", registry, manifest,
         CheckSection("exec", registry, manifest,
         CheckSection("env", registry, manifest,
         CheckSection("fs", registry, manifest,
         CheckSection("network", registry, manifest,
            [panic |-> FALSE, Valid |-> TRUE, Errors |-> <<>>, err |-> "nil"])))))

\* NewCapabilityValidator(registry) followed by Validate(manifest)
DoValidate(r, manifest) ==
    /\ val' = [fn |-> "Validate", registry |-> r, manifest |-> manifest,
               out |-> Validate(RegistryOf[r], manifest)]
    /\ UNCHANGED <<reqs, wire, risk, abiVars, bndVars, concVars, dnsVars, polVars, sdkVars>>

----------------------------------------------------------------------------
(* entities: SimpleRiskAnalyzer.Analyze *)

\* Longest rule list of a capability in an analysed grant set.
MaxRules == 2

\* RiskLevel: iota
RiskNone == 0
RiskLow == 1
RiskMedium == 2
RiskHigh == 3
RiskCritical == 4

NetworkRules ==
    {[Hosts |-> <<>>, Ports |-> <<"443">>],
     [Hosts |-> <<"*">>, Ports |-> <<>>],
     [Hosts |-> <<"example.com">>, Ports |-> <<"443">>],
     [Hosts |-> <<"example.com", "0.0.0.0">>, Ports |-> <<"443">>],
     [Hosts |-> <<"*.example.com">>, Ports |-> <<"80">>]}

FileSystemRules ==
    {[Read |-> <<>>, Write |-> <<>>],
     [Read |-> <<"/data/**">>, Write |-> <<>>],
     [Read |-> <<>>, Write |-> <<"/tmp/x">>],
     [Read |-> <<"/tmp/x">>, Write |-> <<"/tmp/**">>]}

\* a *GrantSet: the nil pointer, or a grant set with its capabilities
NilGrantSet ==
    [ptr |-> "nil", Network |-> Absent, FS |-> Absent, Exec |-> Absent, Env |-> Absent,
     KV |-> Absent]

AnalysedGrantSets ==
    {NilGrantSet} \cup
    [ptr : {"ok"},
     Network : {Absent} \cup [present : {TRUE}, Rules : SeqsUpTo(NetworkRules, MaxRules)],
     FS : {Absent} \cup [present : {TRUE}, Rules : SeqsUpTo(FileSystemRules, MaxRules)],
     Exec : {Absent} \cup [present : {TRUE}, Commands : {<<>>, <<"/bin/ls">>}],
     Env : {Absent} \cup [present : {TRUE}, Variables : {<<>>, <<"HOME">>}],
     KV : {Absent, [present |-> TRUE, Rules |-> <<[Keys |-> <<"*">>, Operation |-> "read-write"]>>]}]

addFactor_KeepLevel(report, level, desc, rule) ==
    IF level > RiskNone
    THEN [report EXCEPT !.RiskFactors = Append(@, [Level |-> level, Description |-> desc,
                                                   Rule |-> rule])]
    ELSE report

\* addFactor: the closure of Analyze
addFactor(report, level, desc, rule) ==
    IF level > RiskNone
    THEN [Level |-> IF level > report.Level THEN level ELSE report.Level,
          RiskFactors |-> Append(report.RiskFactors,
                                 [Level |-> level, Description |-> desc, Rule |-> rule])]
    ELSE report

isWildcardHost_StarOnly(rule) == \E i \in 1..Len(rule.Hosts) : rule.Hosts[i] = "*"

\* h == "*" || h == "0.0.0.0" for some host of the rule
isWildcardHost(rule) == \E i \in 1..Len(rule.Hosts) : rule.Hosts[i] \in {"*", "0.0.0.0"}

AnalyzeNetworkRule(report, rule) ==
    IF isWildcardHost(rule)
    THEN addFactor(report, RiskCritical, "Unrestricted network access",
                   <<"Network", rule.Hosts, rule.Ports>>)
    ELSE addFactor(report, RiskMedium, "Outbound network access",
                   <<"Network", rule.Hosts, rule.Ports>>)

AnalyzeFsRule_ElseRead(report, rule) ==
    IF Len(rule.Write) > 0
    THEN addFactor(report, RiskHigh, "Filesystem write access", <<"FS Write", rule.Write>>)
    ELSE IF Len(rule.Read) > 0
    THEN addFactor(report, RiskMedium, "Filesystem read access", <<"FS Read", rule.Read>>)
    ELSE report

AnalyzeFsRule(report, rule) ==
    LET written == IF Len(rule.Write) > 0
                   THEN addFactor(report, RiskHigh, "Filesystem write access",
                                  <<"FS Write", rule.Write>>)
                   ELSE report
    IN  IF Len(rule.Read) > 0
        THEN addFactor(written, RiskMedium, "Filesystem read access", <<"FS Read", rule.Read>>)
        ELSE written

\* for _, rule := range rules
RECURSIVE AnalyzeNetworkRules(_, _, _)
AnalyzeNetworkRules(report, rules, i) ==
    IF i > Len(rules) THEN report
    ELSE AnalyzeNetworkRules(AnalyzeNetworkRule(report, rules[i]), rules, i + 1)

RECURSIVE AnalyzeFsRules(_, _, _)
AnalyzeFsRules(report, rules, i) ==
    IF i > Len(rules) THEN report
    ELSE AnalyzeFsRules(AnalyzeFsRule(report, rules[i]), rules, i + 1)

ExecGranted_NonNil(grants) == grants.Exec.present

\* grants.Exec != nil && len(grants.Exec.Commands) > 0
ExecGranted(grants) == grants.Exec.present /\ Len(grants.Exec.Commands) > 0

EnvGranted(grants) == grants.Env.present /\ Len(grants.Env.Variables) > 0

Analyze(grants) ==
    LET report == [Level |-> RiskNone, RiskFactors |-> <<>>]
    IN  IF grants.ptr = "nil" THEN report
        ELSE LET network == IF grants.Network.present
                            THEN AnalyzeNetworkRules(report, grants.Network.Rules, 1)
                            ELSE report
                 fs == IF grants.FS.present
                       THEN AnalyzeFsRules(network, grants.FS.Rules, 1)
                       ELSE network
                 exec == IF ExecGranted(grants)
                         THEN addFactor(fs, RiskCritical, "Arbitrary command execution",
                                        <<"Exec", grants.Exec.Commands>>)
                         ELSE fs
             IN  IF EnvGranted(grants)
                 THEN addFactor(exec, RiskLow, "Environment variable access",
                                <<"Env", grants.Env.Variables>>)
                 ELSE exec

DoAnalyze(grants) ==
    /\ risk' = [fn |-> "Analyze", grants |-> grants, report |-> Analyze(grants)]
    /\ UNCHANGED <<reqs, wire, val, abiVars, bndVars, concVars, dnsVars, polVars, sdkVars>>

InitHost ==
    /\ reqs = <<>>
    /\ wire = [fn |-> "none", bytes |-> <<>>, err |-> NoError, result |-> NoResult,
               request |-> 0]
    /\ val = [fn |-> "none"]
    /\ risk = [fn |-> "none"]

\* No service has been passed to RegisterService yet.
NoService == [shape |-> "none", fields |-> <<>>]

InitSdk ==
    /\ conv = [fn |-> "none"]
    /\ defn = [handlers |-> {}, fn |-> "none", svc |-> NoService, err |-> NoError]
    /\ redir = [fn |-> "none"]

InitBoundary ==
    /\ pc = "host"
    /\ userPlugin = NoPlugin
    /\ call = [kind |-> "none", cfg |-> <<0, 0>>, outcome |-> "none", ret |-> 0, freed |-> 0,
               before |-> {}]

InitConc ==
    /\ mmLock = NoCaller
    /\ cst = [c \in Procs |->
                [pc |-> IF c = Main THEN "reset" ELSE "start", ptr |-> 0, packed |-> 0,
                 got |-> <<>>]]

InitAbi ==
    /\ ptrs = EmptyTable
    /\ op = Op("none", 0, 0, TRUE, 0)
    /\ InitBoundary
    /\ InitConc
    /\ InitDnsCache
    /\ InitPolicy
    /\ InitHost
    /\ InitSdk

NextAbi ==
    \/ \E size \in 0 .. MaxLen : Allocate(size)
    \/ \E ptr \in SamplePtrs, size \in 0 .. MaxLen : Deallocate(ptr, size)
    \/ DoFreeAllTracked
    \/ \E data \in Payloads : DoPtrFromBytes(data)
    \/ \E packed \in SamplePacked : DoBytesFromPtr(packed)
    \/ \E packed \in SamplePacked : DoDeallocatePacked(packed)

\* The pinning table of the abi package used from one thread.
SpecAbi == InitAbi /\ [][NextAbi]_vars

\* Tables the packing operations are applied to: the empty one, and one
\* region pinned by PtrFromBytes(<<"a">>).
PackTables == {EmptyTable, Pin(EmptyTable, 1, <<"a">>)}

InitPack ==
    /\ ptrs \in PackTables
    /\ op = Op("none", 0, 0, TRUE, 0)
    /\ InitBoundary
    /\ InitConc
    /\ InitDnsCache
    /\ InitPolicy
    /\ InitHost
    /\ InitSdk

NextPack ==
    \/ \E ptr \in Words, length \in Words : DoPackPtrLen(ptr, length)
    \/ \E packed \in DWords : DoUnpackPtrLen(packed)
    \/ \E packed \in DWords : DoBytesFromPtr(packed)
    \/ \E packed \in DWords : DoDeallocatePacked(packed)

\* The packing operations on every pointer, length and packed value.
SpecPack == InitPack /\ [][NextPack]_vars

\* Config handles the host passes to observe: none, a null pointer with a
\* length, a pointer with no length, a pointer with a length.
ConfigHandles == {<<0, 0>>, <<0, 1>>, <<1, 0>>, <<1, 1>>}

InitBnd ==
    /\ ptrs = EmptyTable
    /\ op = Op("none", 0, 0, TRUE, 0)
    /\ InitBoundary
    /\ InitConc
    /\ InitDnsCache
    /\ InitPolicy
    /\ InitHost
    /\ InitSdk

NextBoundary ==
    \/ \E p \in Plugins : Register(p)
    \/ \E size \in 0 .. MaxLen : HostAllocate(size)
    \/ \E ptr \in DOMAIN ptrs : HostDeallocate(ptr, Len(ptrs[ptr]))
    \/ GuestFreeAllTracked
    \/ \E kind \in ExportKinds :
          \E cfg \in (IF kind = "observe" THEN ConfigHandles ELSE {<<0, 0>>}) :
            ExportedCall(kind, cfg[1], cfg[2])
    \/ \E data \in Payloads : BodyPtrFromBytes(data)
    \/ \E ptr \in DOMAIN ptrs : BodyDeallocatePacked(PackPtrLen(ptr, Len(ptrs[ptr])).val)
    \/ BodyReturn
    \/ BodyReturnError
    \/ BodyPanic

\* The exported calls of one guest, served one at a time for the host.
SpecBoundary == InitBnd /\ [][NextBoundary]_vars

\* Tables TestConcurrency may start from: what earlier tests left pinned.
InitConcurrent ==
    /\ ptrs \in PackTables
    /\ op = Op("none", 0, 0, TRUE, 0)
    /\ InitBoundary
    /\ InitConc
    /\ InitDnsCache
    /\ InitPolicy
    /\ InitHost
    /\ InitSdk

NextConcurrent ==
    \/ ResetLock
    \/ ResetClear
    \/ ResetUnlock
    \/ \E c \in Callers :
          \/ CallerMake(c)
          \/ CallerLock(c)
          \/ CallerInsert(c)
          \/ CallerUnlock(c)
          \/ CallerCopy(c)
          \/ CallerRead(c)
          \/ CallerDelete(c)

\* Goroutines that each pin, read back and release their own buffer.
SpecConcurrent == InitConcurrent /\ [][NextConcurrent]_vars

InitDns ==
    /\ ptrs = EmptyTable
    /\ op = Op("none", 0, 0, TRUE, 0)
    /\ InitBoundary
    /\ InitConc
    /\ InitDnsCache
    /\ InitPolicy
    /\ InitHost
    /\ InitSdk

NextDns ==
    \/ \E c \in DnsCallers, hostname \in DnsHosts : DnsGetStart(c, hostname)
    \/ \E c \in DnsCallers : DnsResolve(c)
    \/ \E c \in DnsCallers : DnsStore(c)
    \/ Tick

\* One dnsPinCache used by the dials of one transport, which may overlap.
SpecDns == InitDns /\ [][NextDns]_vars

InitPol ==
    /\ ptrs = EmptyTable
    /\ op = Op("none", 0, 0, TRUE, 0)
    /\ InitBoundary
    /\ InitConc
    /\ InitDnsCache
    /\ InitPolicy
    /\ InitHost
    /\ InitSdk

NextPolicy ==
    \/ \E kind \in CapabilityKinds, g \in GrantSets :
          \E req \in Requests(kind) : DoEvaluate(kind, req, g)
    \/ \E kind \in CapabilityKinds, g \in GrantSets :
          \E req \in Requests(kind) : DoCheck(kind, req, g)
    \/ \E pluginName \in PluginNames, host \in Hostnames, port \in Ports :
          DoCheckNetworkConnection(pluginName, host, port)

\* One policy and one capability checker, asked about any request.
SpecPolicy == InitPol /\ [][NextPolicy]_vars

InitHttp ==
    /\ ptrs = EmptyTable
    /\ op = Op("none", 0, 0, TRUE, 0)
    /\ InitBoundary
    /\ InitConc
    /\ InitDnsCache
    /\ InitPolicy
    /\ InitHost
    /\ InitSdk

NextHttp ==
    \/ \E hostname \in DnsHosts, dials \in {1, 2} : PerformProtected(hostname, dials)
    \/ \E hostname \in DnsHosts : PerformUnprotected(hostname)
    \/ Tick

\* Successive calls of PerformHTTPRequest by one host process.
SpecHttp == InitHttp /\ [][NextHttp]_vars

InitWire ==
    /\ ptrs = EmptyTable
    /\ op = Op("none", 0, 0, TRUE, 0)
    /\ InitBoundary
    /\ InitConc
    /\ InitDnsCache
    /\ InitPolicy
    /\ InitHost
    /\ InitSdk

NextWire ==
    \/ \E fn \in WireFns : \E answer \in HostResponses(fn) : WireCall(fn, answer)
    \/ DialInvalidAddress
    \/ DoFreeAllTracked

\* A guest that calls host functions one after the other.
SpecWire == InitWire /\ [][NextWire]_vars

InitValidate ==
    /\ ptrs = EmptyTable
    /\ op = Op("none", 0, 0, TRUE, 0)
    /\ InitBoundary
    /\ InitConc
    /\ InitDnsCache
    /\ InitPolicy
    /\ InitHost
    /\ InitSdk

NextValidate ==
    /\ val.fn = "none"
    /\ \E r \in Registries, manifest \in Manifests : DoValidate(r, manifest)

\* Validators over the sample registries, given any manifest; a run is one
\* validator and one call.
SpecValidate == InitValidate /\ [][NextValidate]_vars

InitRisk ==
    /\ ptrs = EmptyTable
    /\ op = Op("none", 0, 0, TRUE, 0)
    /\ InitBoundary
    /\ InitConc
    /\ InitDnsCache
    /\ InitPolicy
    /\ InitHost
    /\ InitSdk

NextRisk ==
    /\ risk.fn = "none"
    /\ \E grants \in AnalysedGrantSets : DoAnalyze(grants)

\* The analyzer given any grant set; a run is one call.
SpecRisk == InitRisk /\ [][NextRisk]_vars

----------------------------------------------------------------------------
(* Claims about the abi package *)

\* C3: for every pointer p and length n other than (p = 0 and n > 0),
\* PackPtrLen(p, n) does not panic, its value has p in the high word and n in
\* the low word (p * 2^WordBits + n), and UnpackPtrLen of that value returns
\* exactly (p, n).
C3_PackUnpackRoundTrip ==
    (op.name = "PackPtrLen" /\ ~(op.a = 0 /\ op.b > 0)) =>
        /\ op.ok
        /\ op.out = op.a * Word + op.b
        /\ UnpackPtrLen(op.out) = [ok |-> TRUE, ptr |-> op.a, length |-> op.b]

\* C3 witness: a pointer and a length with their top bits set have been packed.
C3_Witness ==
    /\ op.name = "PackPtrLen"
    /\ op.ok
    /\ op.a = Word - 1
    /\ op.b = Word - 2

\* C4: PackPtrLen(0, n) with n > 0 panics and yields no handle; UnpackPtrLen,
\* BytesFromPtr and DeallocatePacked of a packed value whose high word is 0
\* and whose low word is not 0 panic and yield no result.
C4_NullPointerWithLengthPanics ==
    /\ (op.name = "PackPtrLen" /\ op.a = 0 /\ op.b > 0) =>
           (~op.ok /\ op.out = NoValue)
    /\ (/\ op.name \in {"UnpackPtrLen", "BytesFromPtr", "DeallocatePacked"}
        /\ HighWord(op.a) = 0
        /\ LowWord(op.a) # 0) =>
           (~op.ok /\ op.out = NoValue)

\* C4 witness: BytesFromPtr has been given a null pointer with a length while
\* a region was pinned.
C4_Witness ==
    /\ op.name = "BytesFromPtr"
    /\ HighWord(op.a) = 0
    /\ LowWord(op.a) = Word - 1
    /\ ~op.ok
    /\ ptrs # EmptyTable

\* The pointer a release step acts on.
ReleasedPtr(o) == IF o.name = "deallocate" THEN o.a ELSE HighWord(o.a)

\* C7: a deallocate or DeallocatePacked step on a pointer that is not in the
\* pinning table (the packed value 0 included) leaves the table unchanged; on
\* a tracked pointer it leaves every other entry as it was and adds none, and
\* deallocate (and DeallocatePacked with a non-zero length) removes the entry
\* keyed by the pointer.
C7_ReleaseFrame ==
    [][op'.name \in {"deallocate", "DeallocatePacked"} =>
          LET ptr == ReleasedPtr(op')
          IN /\ ptr \notin DOMAIN ptrs => ptrs' = ptrs
             /\ DOMAIN ptrs' \subseteq DOMAIN ptrs
             /\ \A q \in (DOMAIN ptrs) \ {ptr} : q \in DOMAIN ptrs' /\ ptrs'[q] = ptrs[q]
             /\ (op'.ok /\ (op'.name = "deallocate" \/ LowWord(op'.a) > 0)) =>
                    ptr \notin DOMAIN ptrs'
      ]_vars

\* C7 witness: a release of one allocator address has acted and every other
\* address is still pinned.
C7_Witness ==
    /\ op.name = "DeallocatePacked"
    /\ op.ok
    /\ LowWord(op.a) > 0
    /\ HighWord(op.a) \in Addr
    /\ DOMAIN ptrs = Addr \ {HighWord(op.a)}
    /\ DOMAIN ptrs # {}

----------------------------------------------------------------------------
(* Claims about the exported calls *)

\* The state in which an exported call that ended with the given outcome has
\* just returned to the host.
JustReturned(outcome) ==
    /\ pc = "host"
    /\ call.outcome = outcome
    /\ op.name = "PtrFromBytes"
    /\ op.out = call.ret

C6_PanicBecomesEvidence ==
    JustReturned("panic") =>
        LET u == UnpackPtrLen(call.ret)
        IN /\ u.ok
           /\ u.ptr \in DOMAIN ptrs
           /\ u.length = Len(ptrs[u.ptr])
           /\ IsEvidenceJSON(ptrs[u.ptr])
           /\ UnmarshalEvidence(ptrs[u.ptr]).Status = FALSE
           /\ UnmarshalEvidence(ptrs[u.ptr]).Type = "panic"
           /\ UnmarshalEvidence(ptrs[u.ptr]).Stack
           /\ call.freed = 1
           /\ (call.before \cap DOMAIN ptrs) \subseteq {u.ptr}

\* C6 witness: observe was called with a null pointer and a length, PackPtrLen
\* panicked, and the call has returned.
C6_Witness ==
    /\ JustReturned("panic")
    /\ call.kind = "observe"
    /\ call.cfg[1] = 0
    /\ call.cfg[2] > 0
    /\ call.before # {}

----------------------------------------------------------------------------
(* Claims about concurrent use of the pinning table *)

AllDone == \A c \in Callers : cst[c].pc = "done"

\* C8: under every interleaving of the callers, the mutex makes each insert,
\* delete and bulk clear atomic (whoever is between Lock and Unlock holds the
\* mutex, so no two are there at once), a caller's region stays pinned at its
\* own address from its insert to its delete, each caller reads back exactly
\* the bytes it wrote, and once all callers have finished the table is empty.
C8_ConcurrentCallers ==
    /\ \A c \in Procs : InCritical(c) => mmLock = c
    /\ \A c \in Callers :
          cst[c].pc \in {"ins_done", "pinned", "packed", "read", "del_locked"} =>
              /\ cst[c].ptr \in DOMAIN ptrs
              /\ \A d \in Callers \ {c} :
                    cst[d].pc \in {"made", "ins_locked", "ins_done", "pinned", "packed",
                                   "read", "del_locked"} => cst[d].ptr # cst[c].ptr
    /\ \A c \in Callers :
          cst[c].pc \in {"read", "del_locked", "del_done", "done"} => cst[c].got = CallerData(c)
    /\ AllDone => ptrs = EmptyTable

\* C8 witness: every caller has pinned a buffer, read its bytes back and
\* released it, and nobody holds the mutex.
C8_Witness ==
    /\ AllDone
    /\ \A c \in Callers : cst[c].got = CallerData(c) /\ cst[c].packed # 0
    /\ mmLock = NoCaller

----------------------------------------------------------------------------
(* Claims about the DNS pin cache *)

\* This step is a call of get(hostname) by c.
GetCalled(c, hostname) ==
    dst[c].pc = "idle" /\ dst'[c] # dst[c] /\ dst'[c].host = hostname

\* This step is the return of a get(hostname) by c that went to the resolver.
GetResolvedReturns(c, hostname) ==
    dst[c].pc \in {"resolve", "store"} /\ dst'[c].pc = "idle" /\ dst[c].host = hostname

\* C9: once a hostname has an entry, then for less than ttl after it was
\* stamped the pinned IP stays the same and every get returns it without going
\* to the resolver; a get that finds the entry expired goes to the resolver,
\* and when it returns the entry has been replaced by what it returns.
C9_PinnedForTtl ==
    [][\A hostname \in DnsHosts :
          /\ Cached(hostname) =>
                /\ entries'[hostname].ip = entries[hostname].ip
                /\ \A c \in DnsCallers : GetCalled(c, hostname) =>
                      /\ dst'[c].pc = "idle"
                      /\ dst'[c].ret = entries[hostname].ip
                      /\ ~dst'[c].resolved
          /\ (hostname \in DOMAIN entries /\ ~Cached(hostname)) =>
                \A c \in DnsCallers : GetCalled(c, hostname) => dst'[c].pc = "resolve"
          /\ \A c \in DnsCallers :
                (GetResolvedReturns(c, hostname) /\ dst[c].snapTs # NoEntryTs) =>
                    /\ dst'[c].resolved
                    /\ entries'[hostname] = [ip |-> dst'[c].ret, ts |-> now]
      ]_vars

\* The last get of c went to the resolver and pinned what it got.
Pinned(c) == dst[c].resolved /\ dst[c].pinTs # NoEntryTs

SameWindow(c, d) ==
    /\ dst[c].host = dst[d].host
    /\ dst[c].pinTs # NoEntryTs /\ dst[d].pinTs # NoEntryTs
    /\ dst[c].pinTs - dst[d].pinTs < ttl
    /\ dst[d].pinTs - dst[c].pinTs < ttl

\* C10: for every hostname, no two callers both resolve it in one ttl window
\* (neither while both are between their read and their write, nor as two
\* pins stamped less than ttl apart), and the callers whose IP comes from pins
\* of one window have the same IP.
C10_ResolvedOncePerWindow ==
    \A c \in DnsCallers : \A d \in DnsCallers \ {c} :
        /\ ~(dst[c].pc = "store" /\ dst[d].pc = "store" /\ dst[c].host = dst[d].host)
        /\ (Pinned(c) /\ Pinned(d)) => ~SameWindow(c, d)
        /\ (dst[c].pc = "idle" /\ dst[d].pc = "idle" /\ SameWindow(c, d)) =>
              dst[c].ret = dst[d].ret

----------------------------------------------------------------------------
(* Claims about the policy engine and the capability checker *)

C2_DeniedConnectionReportedOnce ==
    (pop.name = "CheckNetworkConnection" /\ HasGrants(pop.who)) =>
        /\ pop.result = EvaluateNetwork(pop.req, GrantSetOf[grantedCapabilities[pop.who]])
        /\ reports - pop.before = IF pop.result THEN 0 ELSE 1

\* C2 witness: CheckNetworkConnection has denied a port that the plugin's
\* rules do not pair with the host, after an earlier report.
C2_Witness ==
    /\ pop.name = "CheckNetworkConnection" /\ pop.who = "two"
    /\ pop.req = [Host |-> <<"b", "com">>, Port |-> 443]
    /\ pop.err = "network capability denied"
    /\ pop.before = 1 /\ reports = 2

----------------------------------------------------------------------------
(* Claims about PerformHTTPRequest *)

\* C11: of two successive protected requests to the same hostname less than
\* ttl apart, the first of which resolved the name and dialed, the second
\* invokes no resolution/validation and dials the IP the first one dialed.
C11_ResolvedOncePinnedAcrossRequests ==
    \A i \in 1..(Len(reqs) - 1) :
        (/\ reqs[i].ssrf /\ reqs[i + 1].ssrf
         /\ reqs[i].host = reqs[i + 1].host
         /\ reqs[i + 1].at - reqs[i].at < ttl
         /\ reqs[i].code = "") =>
            /\ reqs[i].validations + reqs[i + 1].validations = 1
            /\ reqs[i + 1].code = ""
            /\ \A k \in 1..Len(reqs[i + 1].dialed) : reqs[i + 1].dialed[k] = reqs[i].dialed[1]

----------------------------------------------------------------------------
(* Claims about the guest's host calls *)

\* C12: whenever the decoded response of lookup, RoundTrip or DialSecure
\* carries an error, the call returns an error and no result, whatever the
\* payload of the response.
C12_ErrorFieldIsAuthoritative ==
    (wire.fn \in WireFns /\ UnmarshalResponse(wire.bytes).ok
        /\ UnmarshalResponse(wire.bytes).Error # "nil") =>
            /\ wire.err # NoError
            /\ wire.result = NoResult

\* C12 witness: a response with both an error and a payload has been answered
\* with the error alone.
C12_Witness ==
    /\ wire.fn = "RoundTrip"
    /\ wire.bytes = <<"object", "network", "b64">>
    /\ wire.err = "network" /\ wire.result = NoResult

----------------------------------------------------------------------------
(* Claims about CapabilityValidator.Validate *)

Validated == val.fn = "Validate" /\ val.manifest.ptr # "nil"

\* C13: for every kind whose section is not empty and which has no schema in
\* the registry, Validate returns (it does not panic) a result with
\* Valid = false and an error whose Field is the kind and whose Message is
\* "no schema registered for capability kind: <kind>".
C13_MissingSchemaIsAnError ==
    Validated =>
        \A kind \in SectionKinds :
            (SectionPresent(val.manifest.Capabilities[kind]) /\ RegistryOf[val.registry][kind] = "none") =>
                /\ ~val.out.panic
                /\ ~val.out.Valid
                /\ \E i \in 1..Len(val.out.Errors) :
                      val.out.Errors[i] =
                          [Field |-> kind,
                           Message |-> <<"no schema registered for capability kind: ", kind>>]

\* C13 witness: a manifest with only a network section, validated against the
\* empty registry, has got exactly the network error.
C13_Witness ==
    /\ Validated /\ val.registry = "empty"
    /\ val.manifest.Capabilities = [k \in SectionKinds |-> IF k = "network" THEN "conforming" ELSE "nil"]
    /\ ~val.out.Valid /\ Len(val.out.Errors) = 1 /\ val.out.Errors[1].Field = "network"

SectionFails(kind) ==
    /\ SectionPresent(val.manifest.Capabilities[kind])
    /\ \/ RegistryOf[val.registry][kind] # "ok"
       \/ val.manifest.Capabilities[kind] = "violating"

\* C14: the errors of a result are one per failing kind, in the order
\* network, fs, env, exec, kv: no failure keeps a later kind from being
\* validated.
C14_AllErrorsAccumulated ==
    Validated =>
        [i \in 1..Len(val.out.Errors) |-> val.out.Errors[i].Field]
            = SelectSeq(KindOrder, SectionFails)

\* C14 witness: all five sections failed, for three different reasons, and
\* the result has the five errors in order.
C14_Witness ==
    /\ Validated /\ val.registry = "mixed"
    /\ \A kind \in SectionKinds : val.manifest.Capabilities[kind] = "violating"
    /\ Len(val.out.Errors) = 5
    /\ val.out.Errors[1].Field = "network" /\ val.out.Errors[5].Field = "kv"

\* C15: Validate returns a nil Go error, and for a manifest whose sections are
\* all nil or empty it returns Valid = true with no errors, whatever the
\* registry holds.
C15_EmptyManifestIsValid ==
    Validated =>
        /\ val.out.err = "nil"
        /\ (\A kind \in SectionKinds : val.manifest.Capabilities[kind] \in {"nil", "empty"}) =>
              val.out.Valid /\ val.out.Errors = <<>>

\* C15 witness: a manifest with empty (not nil) sections was validated
\* against the empty registry and found valid.
C15_Witness ==
    /\ Validated /\ val.registry = "empty"
    /\ val.manifest.Capabilities = [k \in SectionKinds |-> IF k \in {"network", "exec"} THEN "empty" ELSE "nil"]
    /\ val.out.Valid /\ val.out.Errors = <<>> /\ val.out.err = "nil"

----------------------------------------------------------------------------
(* Claims about SimpleRiskAnalyzer.Analyze *)

Analysed == risk.fn = "Analyze"

FactorLevels == {risk.report.RiskFactors[i].Level : i \in 1..Len(risk.report.RiskFactors)}

\* the factors of the report with a given description, by position
FactorsDescribed(desc) ==
    {i \in 1..Len(risk.report.RiskFactors) : risk.report.RiskFactors[i].Description = desc}

\* C16: the level of a report is the maximum level of its factors, NONE when
\* it has none, and every factor has a level above NONE.
C16_LevelIsMaxOfFactors ==
    Analysed =>
        /\ \A level \in FactorLevels : level > RiskNone /\ level <= risk.report.Level
        /\ risk.report.Level \in FactorLevels \cup {RiskNone}
        /\ (FactorLevels = {}) => risk.report.Level = RiskNone
        /\ (FactorLevels # {}) => risk.report.Level \in FactorLevels

\* C16 witness: a report whose last factor is LOW after a HIGH one has level
\* HIGH.
C16_Witness ==
    /\ Analysed /\ Len(risk.report.RiskFactors) = 2
    /\ risk.report.RiskFactors[1].Level = RiskHigh
    /\ risk.report.RiskFactors[2].Level = RiskLow
    /\ risk.report.Level = RiskHigh

NothingGranted(grants) ==
    \/ grants.ptr = "nil"
    \/ /\ grants.Network.present => grants.Network.Rules = <<>>
       /\ grants.FS.present => grants.FS.Rules = <<>>
       /\ grants.Exec.present => grants.Exec.Commands = <<>>
       /\ grants.Env.present => grants.Env.Variables = <<>>
       /\ ~grants.KV.present

\* C17: for the nil grant set and for a grant set with no capability, or only
\* capabilities with empty lists, Analyze returns level NONE with no factors.
C17_NothingGrantedIsNone ==
    (Analysed /\ NothingGranted(risk.grants)) =>
        risk.report = [Level |-> RiskNone, RiskFactors |-> <<>>]

\* C17 witness: a grant set with an exec capability that names no command has
\* been analysed and scored NONE.
C17_Witness ==
    /\ Analysed /\ risk.grants.ptr = "ok"
    /\ risk.grants.Exec.present /\ risk.grants.Exec.Commands = <<>>
    /\ risk.grants.Network.present /\ risk.grants.Network.Rules = <<>>
    /\ ~risk.grants.FS.present /\ ~risk.grants.Env.present /\ ~risk.grants.KV.present
    /\ risk.report = [Level |-> RiskNone, RiskFactors |-> <<>>]

NetworkRuleCount == IF risk.grants.Network.present THEN Len(risk.grants.Network.Rules) ELSE 0

\* C18: the report starts with exactly one factor per network rule, in order:
\* CRITICAL "Unrestricted network access" if some host of the rule is "*" or
\* "0.0.0.0", otherwise MEDIUM "Outbound network access", whatever the ports;
\* no other factor has these descriptions.
C18_OneFactorPerNetworkRule ==
    Analysed =>
        /\ Len(risk.report.RiskFactors) >= NetworkRuleCount
        /\ \A i \in 1..NetworkRuleCount :
              LET rule == risk.grants.Network.Rules[i]
                  wildcard == \E h \in {rule.Hosts[k] : k \in 1..Len(rule.Hosts)} :
                                  h = "*" \/ h = "0.0.0.0"
              IN  /\ risk.report.RiskFactors[i].Level
                        = IF wildcard THEN RiskCritical ELSE RiskMedium
                  /\ risk.report.RiskFactors[i].Description
                        = IF wildcard THEN "Unrestricted network access"
                          ELSE "Outbound network access"
        /\ FactorsDescribed("Unrestricted network access")
              \cup FactorsDescribed("Outbound network access") = 1..NetworkRuleCount

\* C18 witness: the rule {Hosts: [example.com, 0.0.0.0], Ports: [443]} alone
\* has been scored CRITICAL.
C18_Witness ==
    /\ Analysed /\ risk.grants.Network.present
    /\ risk.grants.Network.Rules
          = <<[Hosts |-> <<"example.com", "0.0.0.0">>, Ports |-> <<"443">>]>>
    /\ Len(risk.report.RiskFactors) = 1
    /\ risk.report.Level = RiskCritical

FsRules == IF risk.grants.FS.present THEN risk.grants.FS.Rules ELSE <<>>

FsRulesWithWrite == {i \in 1..Len(FsRules) : Len(FsRules[i].Write) > 0}

FsRulesWithRead == {i \in 1..Len(FsRules) : Len(FsRules[i].Read) > 0}

\* C19: the report has as many "Filesystem write access" factors as there are
\* filesystem rules with a write entry, all HIGH, and as many "Filesystem
\* read access" factors as there are rules with a read entry, all MEDIUM;
\* the patterns of the entries play no part.
C19_FsWriteHighReadMedium ==
    Analysed =>
        /\ Cardinality(FactorsDescribed("Filesystem write access"))
              = Cardinality(FsRulesWithWrite)
        /\ Cardinality(FactorsDescribed("Filesystem read access"))
              = Cardinality(FsRulesWithRead)
        /\ \A i \in FactorsDescribed("Filesystem write access") :
              risk.report.RiskFactors[i].Level = RiskHigh
        /\ \A i \in FactorsDescribed("Filesystem read access") :
              risk.report.RiskFactors[i].Level = RiskMedium

\* C19 witness: one rule with a read entry and a recursive write entry has
\* given a HIGH factor followed by a MEDIUM one.
C19_Witness ==
    /\ Analysed /\ risk.grants.FS.present /\ ~risk.grants.Network.present
    /\ risk.grants.FS.Rules = <<[Read |-> <<"/tmp/x">>, Write |-> <<"/tmp/**">>]>>
    /\ Len(risk.report.RiskFactors) >= 2
    /\ risk.report.RiskFactors[1].Level = RiskHigh
    /\ risk.report.RiskFactors[2].Level = RiskMedium

----------------------------------------------------------------------------
(* Claims about the pointer/length pair of a handle *)

\* the pointer and the length of the handle PackPtrLen or UnpackPtrLen accepted
AcceptedPtr == IF op.name = "PackPtrLen" THEN op.a ELSE op.out[1]
AcceptedLen == IF op.name = "PackPtrLen" THEN op.b ELSE op.out[2]
HandleAccepted == op.name \in {"PackPtrLen", "UnpackPtrLen"} /\ op.ok

\* C20 as stated: every handle PackPtrLen or UnpackPtrLen accepts has
\* pointer = 0 if and only if length = 0.
C20_PointerZeroIffLengthZero ==
    HandleAccepted => ((AcceptedPtr = 0) <=> (AcceptedLen = 0))

\* C20, amended: every handle PackPtrLen or UnpackPtrLen accepts has
\* length = 0 if its pointer is 0; a non-zero pointer with zero length is
\* not rejected: PackPtrLen returns the pointer in the high word over a zero
\* low word, and UnpackPtrLen returns the pair.
C20_NullPointerImpliesZeroLength ==
    /\ HandleAccepted => (AcceptedPtr = 0 => AcceptedLen = 0)
    /\ (op.name = "PackPtrLen" /\ op.a # 0 /\ op.b = 0) =>
           (op.ok /\ op.out = op.a * Word)
    /\ (op.name = "UnpackPtrLen" /\ HighWord(op.a) # 0 /\ LowWord(op.a) = 0) =>
           (op.ok /\ op.out = <<HighWord(op.a), 0>>)

\* C20 witness: PackPtrLen has accepted the largest pointer with length 0.
C20_Witness ==
    /\ op.name = "PackPtrLen"
    /\ op.a = Word - 1
    /\ op.b = 0
    /\ op.ok
    /\ op.out = (Word - 1) * Word

----------------------------------------------------------------------------
(* Claims about observe and its config handle *)

\* observe is running on a config handle with a null pointer and a length
BadConfigHandle ==
    call.kind = "observe" /\ call.cfg[1] = 0 /\ call.cfg[2] > 0

\* the ErrorDetail type of the Evidence the last exported call returned
ReturnedType == UnmarshalEvidence(ptrs[HighWord(call.ret)]).Type

\* C21 as stated: an observe call on a config handle with a null pointer and
\* a length returns an Evidence whose error has type "internal".
C21_BadHandleIsInternal ==
    (pc = "host" /\ BadConfigHandle /\ call.outcome # "running") =>
        ReturnedType = "internal"

\* C21, amended: while observe runs on a config handle with a null pointer
\* and a length, the only step is the return to the host, so the plugin's
\* Check never runs; with a registered plugin the call returns, after the
\* recovery of the panic of PackPtrLen, an Evidence with Status = false whose
\* error has type "panic" and a stack; with no plugin registered it returns
\* the "plugin not registered" error, of type "internal".
C21_BadHandleIsPanic ==
    [][(pc = "body" /\ BadConfigHandle) =>
          /\ pc' = "host"
          /\ call'.outcome = (IF Registered THEN "panic" ELSE "error")
          /\ UnmarshalEvidence(ptrs'[HighWord(call'.ret)])
                = [Status |-> FALSE,
                   Type |-> IF Registered THEN "panic" ELSE "internal",
                   Stack |-> Registered,
                   Message |-> IF Registered THEN "plugin panic"
                               ELSE "plugin not registered"]]_vars

\* C21 witness: observe on the handle (0, 1) of a registered plugin has
\* returned a panic Evidence.
C21_Witness ==
    /\ JustReturned("panic")
    /\ BadConfigHandle
    /\ Registered
    /\ ReturnedType = "panic"

----------------------------------------------------------------------------
(* sdk: error values and ToErrorDetail *)

\* An error is the chain errors.As walks: the dynamic types from the error
\* itself down to its innermost cause; the nil error is the empty chain.
\* Chains have at most MaxChain errors.
MaxChain == 3

\* the error types with an Unwrap method (wrapError is fmt.Errorf with %w)
WrapperTypes ==
    {"NetworkError", "ConfigError", "ExecError", "DNSError", "HTTPError", "TCPError",
     "SchemaError", "WireFormatError", "wrapError"}

\* the error types without one: errorString is errors.New / fmt.Errorf,
\* deadlineExceeded is context.DeadlineExceeded, ErrorDetail is a
\* *wireformat.ErrorDetail of type "config"
LeafTypes ==
    {"TimeoutError", "CapabilityError", "MemoryError", "errorString", "deadlineExceeded",
     "ErrorDetail"}

NilError == <<>>

Errors ==
    {NilError} \cup
    {w \o <<t>> : w \in SeqsUpTo(WrapperTypes, MaxChain - 1), t \in WrapperTypes \cup LeafTypes}

\* errors.As(err, &target): the position of the first error of the type in
\* the chain, 0 when there is none
ErrorsAs(err, type) ==
    IF \E i \in 1..Len(err) : err[i] = type
    THEN CHOOSE i \in 1..Len(err) : err[i] = type /\ \A j \in 1..(i - 1) : err[j] # type
    ELSE 0

\* the types with a method Timeout() bool
HasTimeoutMethod(type) ==
    type \in {"TimeoutError", "DNSError", "HTTPError", "TCPError", "deadlineExceeded"}

RECURSIVE Timeout(_, _)
\* err[i].Timeout(): true for a TimeoutError and for the deadline error; for
\* a DNSError, HTTPError or TCPError the Timeout() of e.Err when e.Err has the
\* method, false otherwise
Timeout(err, i) ==
    CASE err[i] \in {"TimeoutError", "deadlineExceeded"} -> TRUE
      [] err[i] \in {"DNSError", "HTTPError", "TCPError"} ->
            /\ i < Len(err)
            /\ HasTimeoutMethod(err[i + 1])
            /\ Timeout(err, i + 1)
      [] OTHER -> FALSE

NilDetail == [nil |-> TRUE, Type |-> ""]
Detail(type) == [nil |-> FALSE, Type |-> type]

\* network, or timeout when the error found reports Timeout()
NetworkOrTimeout(err, i) == Detail(IF Timeout(err, i) THEN "timeout" ELSE "network")

ToErrorDetail(err) ==
    IF err = NilError THEN NilDetail
    ELSE IF ErrorsAs(err, "ErrorDetail") # 0 THEN Detail("config")
    ELSE IF ErrorsAs(err, "NetworkError") # 0 THEN Detail("network")
    ELSE IF ErrorsAs(err, "DNSError") # 0 THEN NetworkOrTimeout(err, ErrorsAs(err, "DNSError"))
    ELSE IF ErrorsAs(err, "HTTPError") # 0 THEN NetworkOrTimeout(err, ErrorsAs(err, "HTTPError"))
    ELSE IF ErrorsAs(err, "TCPError") # 0 THEN NetworkOrTimeout(err, ErrorsAs(err, "TCPError"))
    ELSE IF ErrorsAs(err, "TimeoutError") # 0 THEN Detail("timeout")
    ELSE IF ErrorsAs(err, "CapabilityError") # 0 THEN Detail("capability")
    ELSE IF ErrorsAs(err, "ConfigError") # 0 THEN Detail("config")
    ELSE IF ErrorsAs(err, "ExecError") # 0 THEN Detail("exec")
    ELSE IF ErrorsAs(err, "SchemaError") # 0 THEN Detail("validation")
    ELSE IF ErrorsAs(err, "MemoryError") # 0 THEN Detail("internal")
    ELSE IF ErrorsAs(err, "WireFormatError") # 0 THEN Detail("internal")
    ELSE Detail("internal")

DoToErrorDetail(err) ==
    /\ conv' = [fn |-> "ToErrorDetail", err |-> err, out |-> ToErrorDetail(err)]
    /\ UNCHANGED <<defn, redir, abiVars, bndVars, concVars, dnsVars, polVars, hostVars>>

InitErrors ==
    /\ ptrs = EmptyTable
    /\ op = Op("none", 0, 0, TRUE, 0)
    /\ InitBoundary
    /\ InitConc
    /\ InitDnsCache
    /\ InitPolicy
    /\ InitHost
    /\ InitSdk

NextErrors ==
    /\ conv.fn = "none"
    /\ \E err \in Errors : DoToErrorDetail(err)

\* ToErrorDetail applied once to every error chain.
SpecErrors == InitErrors /\ [][NextErrors]_vars

----------------------------------------------------------------------------
(* Claims about ToErrorDetail *)

Converted == conv.fn = "ToErrorDetail"

\* the error at position i has an underlying error that reports Timeout()
UnderlyingTimesOut(err, i) ==
    i < Len(err) /\ HasTimeoutMethod(err[i + 1]) /\ Timeout(err, i + 1)

\* the chain holds a TimeoutError, or a DNSError, HTTPError or TCPError whose
\* underlying error reports Timeout() = true
IsTimeout(err) ==
    \E i \in 1..Len(err) :
        \/ err[i] = "TimeoutError"
        \/ err[i] \in {"DNSError", "HTTPError", "TCPError"} /\ UnderlyingTimesOut(err, i)

\* C27: ToErrorDetail of nil is nil; of an error whose chain holds a
\* TimeoutError, or a DNSError, HTTPError or TCPError whose underlying error
\* reports Timeout(), it has type "timeout"; of a DNSError, HTTPError or
\* TCPError without a timeout it has type "network"; of an error made only of
\* fmt.Errorf / errors.New errors it has type "internal".
C27_TimeoutsAreTimeout ==
    Converted =>
        /\ (conv.err = NilError) <=> conv.out.nil
        /\ IsTimeout(conv.err) => conv.out.Type = "timeout"
        /\ (/\ conv.err # NilError
            /\ conv.err[1] \in {"DNSError", "HTTPError", "TCPError"}
            /\ ~IsTimeout(conv.err)
            /\ \A i \in 1..Len(conv.err) :
                  conv.err[i] \in {"DNSError", "HTTPError", "TCPError", "wrapError",
                                   "errorString"}) => conv.out.Type = "network"
        /\ (/\ conv.err # NilError
            /\ \A i \in 1..Len(conv.err) : conv.err[i] \in {"wrapError", "errorString"})
               => conv.out.Type = "internal"

----------------------------------------------------------------------------
(* hostfuncs: the checks of CapabilityChecker and ToCapabilityGetter *)

CheckerKinds == {"network", "filesystem", "environment", "exec"}

\* fmt.Errorf("<kind> capability denied: ...")
DeniedError(kind) ==
    CASE kind = "network" -> "network capability denied"
      [] kind = "filesystem" -> "filesystem capability denied"
      [] kind = "environment" -> "environment capability denied"
      [] kind = "exec" -> "exec capability denied"

\* CapabilityChecker.CheckNetwork, CheckFileSystem, CheckEnvironment and
\* CheckExec: the error returned and the denial reports of the policy
CheckerCheck(kind, pluginName, req) ==
    IF ~HasGrants(pluginName)
    THEN [err |-> "no capabilities granted", reported |-> 0]
    ELSE LET decision == Check(kind, req, GrantSetOf[grantedCapabilities[pluginName]])
         IN  [err |-> IF decision.result THEN NoError ELSE DeniedError(kind),
              reported |-> decision.reported]

\* every error of the checker is made by fmt.Errorf without %w
ErrorValue(err) == IF err = NoError THEN NilError ELSE <<"errorString">>

\* the capability strings passed to a capability getter, and what
\* strings.CutPrefix(capability, "env:") gives for them
GetterCapabilities == {"/bin/ls", "/bin/sh", "env:HOME", "env:PATH"}

CutPrefixEnv(capability) ==
    CASE capability = "env:HOME" -> [found |-> TRUE, varName |-> "HOME"]
      [] capability = "env:PATH" -> [found |-> TRUE, varName |-> "PATH"]
      [] OTHER -> [found |-> FALSE, varName |-> capability]

CapabilityGetter_OfPlugin(pluginName, plugin, capability) ==
    LET exec == CheckerCheck("exec", plugin, [Command |-> capability])
    IN  [result |-> exec.err = NoError, reported |-> exec.reported]

\* the function ToCapabilityGetter(pluginName) returns, applied to
\* (plugin, capability): its result and the denial reports of its checks
CapabilityGetter(pluginName, plugin, capability) ==
    LET cut == CutPrefixEnv(capability)
        env == CheckerCheck("environment", pluginName, [Variable |-> cut.varName])
        exec == CheckerCheck("exec", pluginName, [Command |-> capability])
    IN  IF cut.found
        THEN IF env.err = NoError
             THEN [result |-> TRUE, reported |-> env.reported]
             ELSE [result |-> exec.err = NoError,
                   reported |-> env.reported + exec.reported]
        ELSE [result |-> exec.err = NoError, reported |-> exec.reported]

DoCheckerCheck(kind, pluginName, req) ==
    /\ reports < MaxReports
    /\ LET outcome == CheckerCheck(kind, pluginName, req)
       IN  /\ reports' = reports + outcome.reported
           /\ pop' = PolicyOp("CheckerCheck", kind, req, pluginName,
                              outcome.err = NoError, outcome.err)
    /\ UNCHANGED <<abiVars, bndVars, concVars, dnsVars, hostVars, sdkVars>>

DoCapabilityGetter(pluginName, plugin, capability) ==
    /\ reports < MaxReports
    /\ LET outcome == CapabilityGetter(pluginName, plugin, capability)
       IN  /\ reports' = reports + outcome.reported
           /\ pop' = PolicyOp("CapabilityGetter", "exec",
                              [plugin |-> plugin, capability |-> capability], pluginName,
                              outcome.result, NoError)
    /\ UNCHANGED <<abiVars, bndVars, concVars, dnsVars, hostVars, sdkVars>>

NextChecker ==
    \/ \E kind \in CheckerKinds, pluginName \in PluginNames :
          \E req \in Requests(kind) : DoCheckerCheck(kind, pluginName, req)
    \/ \E pluginName \in PluginNames, host \in Hostnames, port \in Ports :
          DoCheckNetworkConnection(pluginName, host, port)
    \/ \E pluginName \in PluginNames, plugin \in PluginNames :
          \E capability \in GetterCapabilities :
             DoCapabilityGetter(pluginName, plugin, capability)

\* One CapabilityChecker and the getters made from it, called by the host.
SpecChecker == InitPol /\ [][NextChecker]_vars

----------------------------------------------------------------------------
(* Claims about the capability checker *)

\* the type ToErrorDetail gives the error of the last check: the kind under
\* which the error is seen outside
ExternalKind == ToErrorDetail(ErrorValue(pop.err)).Type

CheckerCalled == pop.name \in {"CheckerCheck", "CheckNetworkConnection"}

\* C22: a check for a plugin name that is absent from the grant map or mapped
\* to nil returns an error, and that error and the error of a denial by a
\* present grant set are both of the kind capability denied.
C22_MissingGrantsAreCapabilityDenied ==
    /\ (CheckerCalled /\ ~HasGrants(pop.who)) =>
           (pop.err # NoError /\ ExternalKind = "capability")
    /\ (CheckerCalled /\ HasGrants(pop.who) /\ ~pop.result) =>
           (pop.err # NoError /\ ExternalKind = "capability")

GetterCalled == pop.name = "CapabilityGetter"

\* what the grants of the getter's plugin allow for a capability string
GetterAllows(pluginName, capability) ==
    /\ HasGrants(pluginName)
    /\ LET grants == GrantSetOf[grantedCapabilities[pluginName]]
           exec == EvaluateExec([Command |-> capability], grants)
       IN  CASE capability = "env:HOME" ->
                   EvaluateEnvironment([Variable |-> "HOME"], grants) \/ exec
             [] capability = "env:PATH" ->
                   EvaluateEnvironment([Variable |-> "PATH"], grants) \/ exec
             [] OTHER -> exec

\* C25: the getter of ToCapabilityGetter(pluginName) returns true for
\* "env:NAME" iff the environment grant of pluginName allows NAME or its exec
\* allowlist holds the string "env:NAME", and for any other string iff the
\* exec allowlist holds it; the plugin argument plays no part.
C25_EnvPassThrough ==
    GetterCalled => (pop.result <=> GetterAllows(pop.who, pop.req.capability))

\* C25 witness: the getter of a plugin whose environment grant lacks PATH and
\* whose exec allowlist holds "env:PATH" has been called for "env:PATH" with
\* the name of a plugin without grants, and returned true.
C25_Witness ==
    /\ GetterCalled
    /\ pop.who = "shell"
    /\ pop.req = [plugin |-> "ghost", capability |-> "env:PATH"]
    /\ pop.result

\* C26: one call of the getter emits exactly one denial report when it
\* returns false and none when it returns true.
C26_GetterReportsOnce ==
    GetterCalled => (reports - pop.before = (IF pop.result THEN 0 ELSE 1))

----------------------------------------------------------------------------
(* Claims about the buffers of a host call *)

\* C23: when lookup, RoundTrip or DialSecure has returned, the request buffer
\* it pinned with PtrFromBytes is no longer in the pinning table.
C23_RequestBufferReleased ==
    (wire.fn \in WireFns /\ op.name = "DeallocatePacked" /\ wire.request # 0) =>
        HighWord(wire.request) \notin DOMAIN ptrs

----------------------------------------------------------------------------
(* Claims about the bulk release of handleExportedCall *)

\* C24: the step that ends an exported call makes one bulk release when the
\* wrapped function panicked and none when it returned a result or an error;
\* on those two paths every region pinned when the function returned is still
\* pinned, with its bytes, when the call returns to the host.
C24_BulkReleaseOnlyOnPanic ==
    [][(pc = "body" /\ pc' = "host") =>
          /\ call.freed = 0
          /\ call'.outcome = "panic" => call'.freed = 1
          /\ call'.outcome \in {"ok", "error"} =>
                /\ call'.freed = 0
                /\ \A ptr \in DOMAIN ptrs : ptr \in DOMAIN ptrs' /\ ptrs'[ptr] = ptrs[ptr]]_vars

\* C24 witness: a call that returned an ordinary error has come back to the
\* host with the regions pinned before its return still pinned.
C24_Witness ==
    /\ JustReturned("error")
    /\ call.freed = 0
    /\ call.before # {}
    /\ call.before \subseteq DOMAIN ptrs

----------------------------------------------------------------------------
(* Claims about Register *)

\* C28: the first Register sets the plugin and no later Register replaces
\* it; describe returns the Metadata of that plugin; an exported call made
\* before any Register does nothing but return, without a panic, an Evidence
\* with Status = false and the error "plugin not registered".
C28_FirstRegisteredPluginServes ==
    [][/\ userPlugin # NoPlugin => userPlugin' = userPlugin
       /\ (userPlugin = NoPlugin /\ op'.name = "Register") => userPlugin' = op'.a
       /\ (pc = "body" /\ pc' = "host" /\ call'.outcome = "ok" /\ call.kind = "describe") =>
             ptrs'[HighWord(call'.ret)] = <<"Metadata", userPlugin>>
       /\ (pc = "body" /\ userPlugin = NoPlugin) =>
             /\ pc' = "host"
             /\ call'.outcome = "error"
             /\ UnmarshalEvidence(ptrs'[HighWord(call'.ret)])
                   = [Status |-> FALSE, Type |-> "internal", Stack |-> FALSE,
                      Message |-> "plugin not registered"]]_vars

\* C28 witness: after describe was served by p1, Register(p2) has been called
\* and p1 is still the plugin.
C28_Witness ==
    /\ op.name = "Register"
    /\ op.a = "p2"
    /\ userPlugin = "p1"
    /\ call.kind = "describe"
    /\ call.outcome = "ok"

\* ---------------------------------------------------------------------------
\* application/plugin: RegisterService and the handlers of a PluginDefinition
\* ---------------------------------------------------------------------------

\* Largest number of fields of a service struct.
MaxFields == 2

\* What RegisterService is handed: a value that is no pointer to struct, a
\* struct that embeds no Service, one whose Service has no name tag, or a
\* well-formed service.
ServiceShapes == {"notptr", "noservice", "noname", "ok"}

\* A field of the struct: no Op at all, an Op never passed to RegisterOp, an
\* Op whose method is missing, an Op whose method has the wrong signature, or
\* an Op with a proper handler method.
FieldKinds == {"plain", "unregistered", "nomethod", "badsig", "ok"}

Services ==
    [shape : ServiceShapes,
     fields : UNION {[1..n -> FieldKinds] : n \in 0..MaxFields}]

\* extractServiceMetadata: the name of the service, or the error.
extractServiceMetadata(svc) ==
    CASE svc.shape = "noservice" -> [name |-> "", err |-> "struct must embed plugin.Service"]
      [] svc.shape = "noname" -> [name |-> "", err |-> "Service field missing 'name' tag"]
      [] OTHER -> [name |-> "svc", err |-> NoError]

\* extractOperations: the Op fields in order (an operation is named after its
\* field, here the field's position), or the error; the first Op missing from
\* the registry ends the scan.
RECURSIVE scanFields(_, _, _)
scanFields(fields, i, ops) ==
    IF i > Len(fields) THEN [ops |-> ops, err |-> NoError]
    ELSE IF fields[i] = "plain" THEN scanFields(fields, i + 1, ops)
    ELSE IF fields[i] = "unregistered" THEN [ops |-> <<>>, err |-> "Op field not registered"]
    ELSE scanFields(fields, i + 1, Append(ops, [name |-> i, kind |-> fields[i]]))

extractOperations(svc) ==
    LET r == scanFields(svc.fields, 1, <<>>)
    IN  IF r.err # NoError THEN r
        ELSE IF Len(r.ops) = 0
        THEN [ops |-> <<>>, err |-> "service has no operations (no Op fields)"]
        ELSE r

\* PluginDefinition.RegisterHandler: the entry of serviceName/opName is set.
RegisterHandler(handlers, serviceName, opName) == handlers \cup {<<serviceName, opName>>}

\* PluginDefinition.GetHandler: whether serviceName/opName has a handler.
GetHandler(handlers, serviceName, opName) == <<serviceName, opName>> \in handlers

\* The loop of RegisterService over the operations: each one is matched to
\* its method, wrapped and registered before the next one is looked at.
RECURSIVE registerOps(_, _, _, _)
registerOps(handlers, serviceName, ops, i) ==
    IF i > Len(ops) THEN [handlers |-> handlers, err |-> NoError]
    ELSE IF ops[i].kind = "nomethod" THEN [handlers |-> handlers, err |-> "no method for operation"]
    ELSE IF ops[i].kind = "badsig" THEN [handlers |-> handlers, err |-> "wrong handler signature"]
    ELSE registerOps(RegisterHandler(handlers, serviceName, ops[i].name), serviceName, ops, i + 1)

\* RegisterService(plugin, svc): the handlers of plugin afterwards and the
\* error returned.
RegisterServiceResult(handlers, svc) ==
    IF svc.shape = "notptr"
    THEN [handlers |-> handlers, err |-> "service must be a pointer to struct"]
    ELSE LET meta == extractServiceMetadata(svc)
             ex == extractOperations(svc)
         IN  IF meta.err # NoError THEN [handlers |-> handlers, err |-> meta.err]
             ELSE IF ex.err # NoError THEN [handlers |-> handlers, err |-> ex.err]
             ELSE registerOps(handlers, meta.name, ex.ops, 1)

RegisterService(svc) ==
    /\ LET r == RegisterServiceResult(defn.handlers, svc)
       IN  defn' = [handlers |-> r.handlers, fn |-> "RegisterService",
                    svc |-> svc, err |-> r.err]
    /\ UNCHANGED <<conv, redir, abiVars, bndVars, concVars, dnsVars, polVars, hostVars>>

\* DefinePlugin followed by calls of RegisterService on it.
NextService == \E svc \in Services : RegisterService(svc)

SpecService == InitErrors /\ [][NextService]_vars

\* C29: when RegisterService returns an error, the handlers of the
\* PluginDefinition are the ones it had before the call.
C29_RegisterServiceAllOrNothing ==
    [][(defn'.fn = "RegisterService" /\ defn'.err # NoError) =>
          defn'.handlers = defn.handlers]_vars

\* ---------------------------------------------------------------------------
\* hostfuncs: the redirect policy of PerformHTTPRequest
\* ---------------------------------------------------------------------------

\* Largest redirect limit given by an option or by a request.
MaxRedirectsArg == 2

\* Longest chain of redirect responses the server answers with.
MaxHops == 3

\* maxRedirects of defaultHTTPConfig.
DefaultMaxRedirects == 10

\* The limit of net/http when a client has no CheckRedirect of its own: it stops
\* after 10 consecutive requests.
defaultCheckRedirect == DefaultMaxRedirects

Tristate == {"unset", "true", "false"}

\* The options of a call: WithHTTPMaxRedirects(n) if present, and
\* WithHTTPFollowRedirects(follow) if follow is not "unset".
HTTPOptions ==
    [hasMax : BOOLEAN, n : -1..MaxRedirectsArg, follow : Tristate]

\* The fields of an HTTPRequest the redirect policy depends on.
HTTPRequests ==
    [MaxRedirects : 0..MaxRedirectsArg, FollowRedirects : Tristate]

defaultHTTPConfig == [maxRedirects |-> DefaultMaxRedirects, followRedirects |-> TRUE]

WithHTTPMaxRedirects(c, n) ==
    IF n >= 0 THEN [c EXCEPT !.maxRedirects = n] ELSE c

WithHTTPFollowRedirects(c, follow) == [c EXCEPT !.followRedirects = follow]

\* The loop `for _, opt := range opts { opt(&cfg) }`.
applyOptions(c, opts) ==
    LET c1 == IF opts.hasMax THEN WithHTTPMaxRedirects(c, opts.n) ELSE c
    IN  IF opts.follow = "unset" THEN c1
        ELSE WithHTTPFollowRedirects(c1, opts.follow = "true")

applyRequestConfig(req, c) ==
    LET c1 == IF req.MaxRedirects > 0 THEN [c EXCEPT !.maxRedirects = req.MaxRedirects] ELSE c
    IN  IF req.FollowRedirects # "unset"
        THEN [c1 EXCEPT !.followRedirects = (req.FollowRedirects = "true")]
        ELSE c1

\* The CheckRedirect that createHTTPClient gives the client. "last" answers
\* ErrUseLastResponse; otherwise a limit on len(via), the client's own or,
\* when CheckRedirect is left nil, the default one of net/http.
CheckRedirect(c) ==
    IF ~c.followRedirects THEN [policy |-> "last", limit |-> 0]
    ELSE IF c.maxRedirects > 0 THEN [policy |-> "limit", limit |-> c.maxRedirects]
    ELSE [policy |-> "default", limit |-> defaultCheckRedirect]

NoRedirectError == [stopped |-> FALSE, n |-> 0]

\* client.Do against a server that answers with `hops` more redirects: via is
\* the number of requests already made.
RECURSIVE clientDo(_, _, _)
clientDo(client, hops, via) ==
    IF hops = 0 THEN [followed |-> via - 1, err |-> NoRedirectError]
    ELSE IF client.policy = "last" THEN [followed |-> via - 1, err |-> NoRedirectError]
    ELSE IF via >= client.limit
    THEN [followed |-> via - 1, err |-> [stopped |-> TRUE, n |-> client.limit]]
    ELSE clientDo(client, hops - 1, via + 1)

PerformHTTPRequest(req, opts, hops) ==
    /\ LET cfg == applyRequestConfig(req, applyOptions(defaultHTTPConfig, opts))
           r == clientDo(CheckRedirect(cfg), hops, 1)
       IN  redir' = [fn |-> "PerformHTTPRequest", req |-> req, opts |-> opts,
                     hops |-> hops, cfg |-> cfg, followed |-> r.followed, err |-> r.err]
    /\ UNCHANGED <<conv, defn, abiVars, bndVars, concVars, dnsVars, polVars, hostVars>>

NextRedirect ==
    /\ redir.fn = "none"
    /\ \E req \in HTTPRequests, opts \in HTTPOptions, hops \in 0..MaxHops :
          PerformHTTPRequest(req, opts, hops)

\* One request, of any redirect settings, against any chain of redirects.
SpecRedirect == InitErrors /\ [][NextRedirect]_vars

\* C30: a request whose configured maximum is n follows at most n redirects
\* and, when it is stopped, fails with "stopped after n redirects"; a request
\* with follow-redirects disabled follows none.
C30_RedirectsBounded ==
    redir.fn = "PerformHTTPRequest" =>
        /\ redir.cfg.followRedirects =>
              /\ redir.followed <= redir.cfg.maxRedirects
              /\ redir.err.stopped => redir.err.n = redir.cfg.maxRedirects
        /\ ~redir.cfg.followRedirects => redir.followed = 0

====
